---------------------------- MODULE Spec2Model ----------------------------
(***************************************************************************)
(* The document-ingestion pipeline of law-simplify-ai: the process-document *)
(* edge function (supabase/functions/process-document/index.ts, the serve   *)
(* handler of lines 10-417), the upload page that creates document records *)
(* and invokes it, and the store and storage it reads and writes; the      *)
(* reprocess sweep (src/utils/reprocessDocuments.ts); and the chat: the    *)
(* chat-with-document edge function and the viewer's history loader.       *)
(*                                                                         *)
(* A JavaScript string is a sequence of UTF-16 code units (naturals); a    *)
(* file is a sequence of bytes.  Status values and error messages, which   *)
(* the code only compares or passes on, are TLA+ strings.                  *)
(***************************************************************************)
EXTENDS Integers, Sequences, FiniteSets, TLC

VARIABLES documents, storage, runs, sweep, schema, revision, chat_sessions, chat_messages, chats,
          viewer, uploadedFiles, uploads

\* the variables of the ingestion pipeline, of the reprocess sweep, of the
\* chat and of the upload page
pipelineVars == <<documents, storage, runs>>

sweepVars == <<sweep>>

chatVars == <<schema, revision, chat_sessions, chat_messages, chats, viewer>>

pageVars == <<uploadedFiles, uploads>>

vars ==
  <<documents, storage, runs, sweep, schema, revision, chat_sessions, chat_messages, chats,
    viewer, uploadedFiles, uploads>>

---------------------------------------------------------------------------
(* Bounds of the model.                                                    *)

\* document ids the store can hand out
MaxDocs == 1

\* process-document invocations in one behaviour (they may overlap)
MaxRuns == 2

---------------------------------------------------------------------------
(* Program constants.                                                      *)

\* index.ts:133  if (!text || text.length < 50)
MinTextLength == 50

\* index.ts:362  text.substring(0, 10000)
OriginalTextCap == 10000

\* index.ts:265  analysisResult.summary.length < 100
MinSummaryLength == 100

\* index.ts:97  if (extractedText.length < 100)
MinPdfStreamText == 100

---------------------------------------------------------------------------
(* Strings: the JavaScript operations the handler uses.                    *)

\* a position a mapping step deletes (no code unit)
Drop == 0 - 1

\* U+FFFD, what a non-fatal decoder emits for malformed input
ReplacementChar == 65533

\* U+0020
Space == 32

NotDropped(c) == c # Drop

\* the characters of the regular-expression class \s, which are also the
\* ones String.prototype.trim removes (white space and line terminators)
IsWhiteSpace(c) ==
  \/ c \in {9, 10, 11, 12, 13, 32, 160, 5760, 8232, 8233, 8239, 8287, 12288, 65279}
  \/ (c >= 8192 /\ c <= 8202)

\* String.prototype.trim()
Trim(s) ==
  IF \A i \in 1..Len(s) : IsWhiteSpace(s[i])
    THEN << >>
    ELSE LET first == CHOOSE i \in 1..Len(s) :
                        /\ ~IsWhiteSpace(s[i])
                        /\ \A j \in 1..(i - 1) : IsWhiteSpace(s[j])
             last  == CHOOSE i \in 1..Len(s) :
                        /\ ~IsWhiteSpace(s[i])
                        /\ \A j \in (i + 1)..Len(s) : IsWhiteSpace(s[j])
         IN  SubSeq(s, first, last)

\* String.prototype.substring(from, to) for 0 <= from <= to
Substring(s, from, to) ==
  LET hi == IF to < Len(s) THEN to ELSE Len(s)
  IN  IF from >= hi THEN << >> ELSE SubSeq(s, from + 1, hi)

\* String.prototype.includes(sub)
Includes(s, sub) ==
  \E i \in 0..(Len(s) - Len(sub)) : SubSeq(s, i + 1, i + Len(sub)) = sub

\* String.prototype.toUpperCase() on the ASCII letters (the file types,
\* document types and file names of the model are ASCII)
ToUpperCase(s) ==
  [i \in 1..Len(s) |-> IF s[i] >= 97 /\ s[i] <= 122 THEN s[i] - 32 ELSE s[i]]

\* String.prototype.toLowerCase() on the ASCII letters
ToLowerCase(s) ==
  [i \in 1..Len(s) |-> IF s[i] >= 65 /\ s[i] <= 90 THEN s[i] + 32 ELSE s[i]]

\* the decimal digits of a natural number, as a template literal prints it
RECURSIVE NumberToString(_)
NumberToString(n) ==
  IF n < 10 THEN << 48 + n >>
            ELSE Append(NumberToString(n \div 10), 48 + (n % 10))

\* .replace(/\s+/g, ' ')   every run of white space becomes one space
CollapseWhiteSpace(s) ==
  LET marked == [i \in 1..Len(s) |->
                   IF ~IsWhiteSpace(s[i]) THEN s[i]
                   ELSE IF i > 1 /\ IsWhiteSpace(s[i - 1]) THEN Drop
                   ELSE Space]
  IN  SelectSeq(marked, NotDropped)

\* .replace(/[^\x20-\x7E\s]/g, ' ')   anything that is neither printable
\* ASCII nor white space becomes a space
BlankNonPrintable(s) ==
  [i \in 1..Len(s) |->
     IF (s[i] >= 32 /\ s[i] <= 126) \/ IsWhiteSpace(s[i]) THEN s[i] ELSE Space]

\* the class [\x00-\x08\x0B\x0C\x0E-\x1F\x7F]
IsControlChar(c) ==
  \/ c >= 0 /\ c <= 8
  \/ c = 11
  \/ c = 12
  \/ c >= 14 /\ c <= 31
  \/ c = 127

NotNul(c) == c # 0

NotControlChar(c) == ~IsControlChar(c)

\* CleanText without the two replacements
TrimOnly(text) == Trim(text)

\* index.ts:130
\*   text.replace(/\0/g, '').replace(/[\x00-\x08\x0B\x0C\x0E-\x1F\x7F]/g, '').trim()
CleanText(text) ==
  Trim(SelectSeq(SelectSeq(text, NotNul), NotControlChar))

---------------------------------------------------------------------------
(* Decoding the bytes of a file.                                           *)

IsContinuation(b) == b >= 128 /\ b <= 191

\* how many continuation bytes a UTF-8 lead byte asks for (0: not a lead)
Utf8Needed(b) ==
  IF b >= 194 /\ b <= 223 THEN 1
  ELSE IF b >= 224 /\ b <= 239 THEN 2
  ELSE IF b >= 240 /\ b <= 244 THEN 3
  ELSE 0

\* whether byte b may follow the lead byte directly (the decoder narrows
\* the range after E0, ED, F0 and F4)
Utf8SecondOk(lead, b) ==
  IF lead = 224 THEN b >= 160 /\ b <= 191
  ELSE IF lead = 237 THEN b >= 128 /\ b <= 159
  ELSE IF lead = 240 THEN b >= 144 /\ b <= 191
  ELSE IF lead = 244 THEN b >= 128 /\ b <= 143
  ELSE IsContinuation(b)

\* the number of bytes the sequence that starts at lead byte i takes from
\* the input: the lead and the continuation bytes accepted after it
Utf8Taken(bytes, i) ==
  LET need == Utf8Needed(bytes[i])
      ok(k) == /\ k <= need
               /\ i + k <= Len(bytes)
               /\ IF k = 1 THEN Utf8SecondOk(bytes[i], bytes[i + 1])
                           ELSE IsContinuation(bytes[i + k])
  IN  IF ~ok(1) THEN 1
      ELSE IF ~ok(2) THEN 2
      ELSE IF ~ok(3) THEN 3
      ELSE 4

\* the code point of the complete sequence that starts at lead byte i
Utf8CodePoint(bytes, i) ==
  LET need == Utf8Needed(bytes[i])
      c(k) == bytes[i + k] - 128
  IN  IF need = 1 THEN (bytes[i] - 192) * 64 + c(1)
      ELSE IF need = 2 THEN (bytes[i] - 224) * 4096 + c(1) * 64 + c(2)
      ELSE (bytes[i] - 240) * 262144 + c(1) * 4096 + c(2) * 64 + c(3)

\* the code unit byte i contributes to the decoded string, or Drop: a
\* complete sequence yields its code point at its lead byte (a surrogate
\* pair at its first and last byte when the code point is above U+FFFF), a
\* malformed one yields U+FFFD once
Utf8Unit(bytes, i) ==
  LET b == bytes[i]
      leads == {j \in {i - 3, i - 2, i - 1} :
                  /\ j >= 1
                  /\ Utf8Needed(bytes[j]) > 0
                  /\ j + Utf8Taken(bytes, j) > i}
  IN  IF b < 128 THEN b
      ELSE IF Utf8Needed(b) > 0 THEN
        IF Utf8Taken(bytes, i) # Utf8Needed(b) + 1 THEN ReplacementChar
        ELSE IF Utf8Needed(b) < 3 THEN Utf8CodePoint(bytes, i)
        ELSE 55296 + ((Utf8CodePoint(bytes, i) - 65536) \div 1024)
      ELSE IF IsContinuation(b) /\ leads # {} THEN
        LET j == CHOOSE j \in leads : TRUE
        IN  IF Utf8Needed(bytes[j]) = 3 /\ i = j + 3
              THEN 56320 + ((Utf8CodePoint(bytes, j) - 65536) % 1024)
              ELSE Drop
      ELSE ReplacementChar

\* new TextDecoder('utf-8', { ignoreBOM: true, fatal: false }).decode(bytes)
\* (index.ts:116-117): malformed input is replaced, a byte order mark kept
Utf8Decode(bytes) ==
  SelectSeq([i \in 1..Len(bytes) |-> Utf8Unit(bytes, i)], NotDropped)

\* Blob.text() (index.ts:122): UTF-8 decode that removes a leading byte
\* order mark
BlobText(bytes) ==
  LET s == Utf8Decode(bytes)
  IN  IF Len(s) > 0 /\ s[1] = 65279 THEN Tail(s) ELSE s

\* the code points windows-1252 gives the bytes 0x80..0x9F
Windows1252High ==
  << 8364, 129, 8218, 402, 8222, 8230, 8224, 8225, 710, 8240, 352, 8249, 338, 141, 381, 143,
     144, 8216, 8217, 8220, 8221, 8226, 8211, 8212, 732, 8482, 353, 8250, 339, 157, 382, 376 >>

\* new TextDecoder('latin1').decode(bytes) (index.ts:59): the label latin1
\* names the windows-1252 decoder
Latin1Decode(bytes) ==
  [i \in 1..Len(bytes) |->
     IF bytes[i] >= 128 /\ bytes[i] <= 159 THEN Windows1252High[bytes[i] - 127]
                                          ELSE bytes[i]]

---------------------------------------------------------------------------
(* The regular expressions of the PDF branch (index.ts:53-112), each as    *)
(* the matches a global, left-to-right, non-overlapping scan finds.        *)

Min(S) == CHOOSE x \in S : \A y \in S : x <= y

\* what the regular-expression "." does not match
IsLineTerminator(c) == c \in {10, 13, 8232, 8233}

IsDigit(c) == c >= 48 /\ c <= 57

\* whether the literal lit stands in s at position i
StartsWithAt(s, i, lit) ==
  /\ i >= 1
  /\ i + Len(lit) - 1 <= Len(s)
  /\ SubSeq(s, i, i + Len(lit) - 1) = lit

\* "stream"
StrStream == << 115, 116, 114, 101, 97, 109 >>

\* "\nendstream"
StrNlEndstream == << 10, 101, 110, 100, 115, 116, 114, 101, 97, 109 >>

\* "Tj"
StrTj == << 84, 106 >>

\* "TJ"
StrTJ == << 84, 74 >>

\* /stream\r?\n/ at position i: the position after it, or 0
StreamOpen(s, i) ==
  IF ~StartsWithAt(s, i, StrStream) THEN 0
  ELSE IF i + 6 <= Len(s) /\ s[i + 6] = 10 THEN i + 7
  ELSE IF i + 7 <= Len(s) /\ s[i + 6] = 13 /\ s[i + 7] = 10 THEN i + 8
  ELSE 0

\* /\r?\nendstream/ at position k: the position after it, or 0
StreamClose(s, k) ==
  IF k <= Len(s) /\ s[k] = 13 /\ StartsWithAt(s, k + 1, StrNlEndstream) THEN k + 11
  ELSE IF StartsWithAt(s, k, StrNlEndstream) THEN k + 10
  ELSE 0

\* where the lazy capture of a stream opened before position c ends: the
\* first position from c on at which the closing part matches, or 0
StreamBodyEnd(s, c) ==
  LET ks == {k \in c..Len(s) : StreamClose(s, k) # 0}
  IN  IF ks = {} THEN 0 ELSE Min(ks)

\* index.ts:65-68  every streamMatch[1] of
\*   /stream\r?\n([\s\S]*?)\r?\nendstream/g from position p on
RECURSIVE StreamMatches(_, _)
StreamMatches(s, p) ==
  LET starts == {i \in p..Len(s) :
                   /\ StreamOpen(s, i) # 0
                   /\ StreamBodyEnd(s, StreamOpen(s, i)) # 0}
  IN  IF starts = {} THEN << >>
      ELSE LET i == Min(starts)
               c == StreamOpen(s, i)
               k == StreamBodyEnd(s, c)
           IN  << SubSeq(s, c, k - 1) >> \o StreamMatches(s, StreamClose(s, k))

\* /\s*op/ right after position k: the position after it, or 0
OperatorAfter(s, k, op) ==
  LET rest == {j \in (k + 1)..Len(s) : ~IsWhiteSpace(s[j])}
  IN  IF rest = {} THEN 0
      ELSE IF StartsWithAt(s, Min(rest), op) THEN Min(rest) + Len(op)
      ELSE 0

\* for the opening delimiter at position i, where the lazy (.*?) ends: the
\* first closing delimiter on the same line that the operator follows, or 0
ShowClose(s, i, close, op) ==
  LET ks == {k \in (i + 1)..Len(s) :
               /\ s[k] = close
               /\ \A m \in (i + 1)..(k - 1) : ~IsLineTerminator(s[m])
               /\ OperatorAfter(s, k, op) # 0}
  IN  IF ks = {} THEN 0 ELSE Min(ks)

\* index.ts:71-73 and 82-85  every capture of /\((.*?)\)\s*Tj/g (open "(",
\* close ")", op "Tj") or of /\[(.*?)\]\s*TJ/g from position p on
RECURSIVE ShowMatches(_, _, _, _, _)
ShowMatches(s, p, open, close, op) ==
  LET starts == {i \in p..Len(s) : s[i] = open /\ ShowClose(s, i, close, op) # 0}
  IN  IF starts = {} THEN << >>
      ELSE LET i == Min(starts)
               k == ShowClose(s, i, close, op)
           IN  << SubSeq(s, i + 1, k - 1) >>
                 \o ShowMatches(s, OperatorAfter(s, k, op), open, close, op)

\* parseInt(digits, 8) of three decimal digits, then String.fromCharCode:
\* parseInt reads the leading octal digits; with none it is NaN, and
\* String.fromCharCode(NaN) is U+0000
OctalCharCode(d1, d2, d3) ==
  IF d1 > 55 THEN 0
  ELSE IF d2 > 55 THEN d1 - 48
  ELSE IF d3 > 55 THEN (d1 - 48) * 8 + (d2 - 48)
  ELSE (d1 - 48) * 64 + (d2 - 48) * 8 + (d3 - 48)

\* index.ts:76-77  .replace(/\\(\d{3})/g, (match, octal) =>
\*                    String.fromCharCode(parseInt(octal, 8)))
RECURSIVE DecodeOctalEscapes(_)
DecodeOctalEscapes(s) ==
  IF s = << >> THEN << >>
  ELSE IF /\ Len(s) >= 4
          /\ s[1] = 92
          /\ IsDigit(s[2]) /\ IsDigit(s[3]) /\ IsDigit(s[4])
    THEN << OctalCharCode(s[2], s[3], s[4]) >> \o DecodeOctalEscapes(SubSeq(s, 5, Len(s)))
    ELSE << s[1] >> \o DecodeOctalEscapes(Tail(s))

\* index.ts:78, 90, 103  .replace(/\\(.)/g, '$1')
RECURSIVE Unescape(_)
Unescape(s) ==
  IF s = << >> THEN << >>
  ELSE IF Len(s) >= 2 /\ s[1] = 92 /\ ~IsLineTerminator(s[2])
    THEN << s[2] >> \o Unescape(SubSeq(s, 3, Len(s)))
    ELSE << s[1] >> \o Unescape(Tail(s))

\* every match of /\(([^)]*)\)/g (minLen 0, index.ts:87) or /\(([^)]+)\)/g
\* (minLen 1, index.ts:98) from position p on, without the parentheses
RECURSIVE ParenMatches(_, _, _)
ParenMatches(s, p, minLen) ==
  LET closeOf(i) == {k \in (i + 1)..Len(s) : s[k] = 41}
      starts == {i \in p..Len(s) :
                   /\ s[i] = 40
                   /\ closeOf(i) # {}
                   /\ Min(closeOf(i)) - i - 1 >= minLen}
  IN  IF starts = {} THEN << >>
      ELSE LET i == Min(starts)
               k == Min(closeOf(i))
           IN  << SubSeq(s, i + 1, k - 1) >> \o ParenMatches(s, k + 1, minLen)

\* the concatenation of f(part) + ' ' over the parts of a list
RECURSIVE JoinUnescaped(_, _)
JoinUnescaped(parts, octal) ==
  IF parts = << >> THEN << >>
  ELSE (IF octal THEN Unescape(DecodeOctalEscapes(Head(parts)))
                 ELSE Unescape(Head(parts)))
         \o << Space >> \o JoinUnescaped(Tail(parts), octal)

\* index.ts:82-93  the text of the array-show operators of one stream
RECURSIVE ArrayShowText(_)
ArrayShowText(arrays) ==
  IF arrays = << >> THEN << >>
  ELSE JoinUnescaped(ParenMatches(Head(arrays), 1, 0), FALSE)
         \o ArrayShowText(Tail(arrays))

\* index.ts:67-94  what the streams add to extractedText: per stream, the
\* single-string shows and then the array shows
RECURSIVE StreamsText(_)
StreamsText(streams) ==
  IF streams = << >> THEN << >>
  ELSE LET streamData == Head(streams)
       IN  JoinUnescaped(ShowMatches(streamData, 1, 40, 41, StrTj), TRUE)
             \o ArrayShowText(ShowMatches(streamData, 1, 91, 93, StrTJ))
             \o StreamsText(Tail(streams))

\* index.ts:102  textContent.length > 2 && !/^[\d\s\.]+$/.test(textContent)
IsSimpleText(textContent) ==
  /\ Len(textContent) > 2
  /\ \E i \in 1..Len(textContent) :
       ~(IsDigit(textContent[i]) \/ IsWhiteSpace(textContent[i]) \/ textContent[i] = 46)

\* index.ts:96-106  Method 2: the parenthesised strings of the whole file
SimpleText(pdfString) ==
  JoinUnescaped(SelectSeq(ParenMatches(pdfString, 1, 1), IsSimpleText), FALSE)

\* index.ts:53-112  the pdf branch
ExtractPdf(bytes) ==
  LET pdfString == Latin1Decode(bytes)
      fromStreams == StreamsText(StreamMatches(pdfString, 1))
      extractedText == IF Len(fromStreams) < MinPdfStreamText
                         THEN fromStreams \o SimpleText(pdfString)
                         ELSE fromStreams
  IN  Trim(BlankNonPrintable(CollapseWhiteSpace(extractedText)))

\* index.ts:113-119  the docx branch
ExtractDocx(bytes) ==
  Trim(CollapseWhiteSpace(BlankNonPrintable(Utf8Decode(bytes))))

\* index.ts:120-123  the branch of every other file type
ExtractPlain(bytes) == BlobText(bytes)

\* 'pdf' (index.ts:53)
TypePdf == << 112, 100, 102 >>

\* 'docx' (index.ts:113)
TypeDocx == << 100, 111, 99, 120 >>

\* index.ts:50-127  the text of the file; a rejected read of the file's
\* bytes (failed) is caught and leaves the empty string
ExtractText(file_type, bytes, failed) ==
  IF failed THEN << >>
  ELSE IF file_type = TypePdf THEN ExtractPdf(bytes)
  ELSE IF file_type = TypeDocx THEN ExtractDocx(bytes)
  ELSE ExtractPlain(bytes)

---------------------------------------------------------------------------
(* The string literals of the handler.                                    *)

\* index.ts:159-181 the fixed parts of the placeholder template; strings as UTF-16 code units
\*   1 |Legal Document Analysis: |
\*   2 |\n\nDocument Type: |
\*   3 |\nFile Format: |
\*   4 |\nFile Size: |
\*   5 | bytes\nProcessing Date: |
\*   6 |\n\nCONTENT SUMMARY:\nThis |
\*   7 | contains |
\*   8 |. Based on the document type and filename analysis, this document likely include|
\*     |s important legal provisions that require careful review.\n\nGENERAL LEGAL CONSI|
\*     |DERATIONS:\n- This document establishes legal rights and obligations\n- All part|
\*     |ies should understand their responsibilities\n- Professional legal advice is rec|
\*     |ommended for complex matters\n- Compliance with applicable laws and regulations |
\*     |is essential\n- Important deadlines or time-sensitive requirements may apply\n\n|
\*     |DOCUMENT CHARACTERISTICS:\n- Formal legal language and terminology expected\n- M|
\*     |ay contain specific clauses and conditions\n- Could include parties' rights and |
\*     |responsibilities\n- May specify dispute resolution procedures\n- Potential finan|
\*     |cial or legal obligations present|
PlaceholderParts ==
  << << 76, 101, 103, 97, 108, 32, 68, 111, 99, 117, 109, 101, 110, 116, 32, 65, 110, 97, 108,
     121, 115, 105, 115, 58, 32 >>, << 10, 10, 68, 111, 99, 117, 109, 101, 110, 116, 32, 84,
     121, 112, 101, 58, 32 >>, << 10, 70, 105, 108, 101, 32, 70, 111, 114, 109, 97, 116, 58,
     32 >>, << 10, 70, 105, 108, 101, 32, 83, 105, 122, 101, 58, 32 >>, << 32, 98, 121, 116,
     101, 115, 10, 80, 114, 111, 99, 101, 115, 115, 105, 110, 103, 32, 68, 97, 116, 101, 58,
     32 >>, << 10, 10, 67, 79, 78, 84, 69, 78, 84, 32, 83, 85, 77, 77, 65, 82, 89, 58, 10, 84,
     104, 105, 115, 32 >>, << 32, 99, 111, 110, 116, 97, 105, 110, 115, 32 >>, << 46, 32, 66,
     97, 115, 101, 100, 32, 111, 110, 32, 116, 104, 101, 32, 100, 111, 99, 117, 109, 101, 110,
     116, 32, 116, 121, 112, 101, 32, 97, 110, 100, 32, 102, 105, 108, 101, 110, 97, 109, 101,
     32, 97, 110, 97, 108, 121, 115, 105, 115, 44, 32, 116, 104, 105, 115, 32, 100, 111, 99,
     117, 109, 101, 110, 116, 32, 108, 105, 107, 101, 108, 121, 32, 105, 110, 99, 108, 117,
     100, 101, 115, 32, 105, 109, 112, 111, 114, 116, 97, 110, 116, 32, 108, 101, 103, 97, 108,
     32, 112, 114, 111, 118, 105, 115, 105, 111, 110, 115, 32, 116, 104, 97, 116, 32, 114, 101,
     113, 117, 105, 114, 101, 32, 99, 97, 114, 101, 102, 117, 108, 32, 114, 101, 118, 105, 101,
     119, 46, 10, 10, 71, 69, 78, 69, 82, 65, 76, 32, 76, 69, 71, 65, 76, 32, 67, 79, 78, 83,
     73, 68, 69, 82, 65, 84, 73, 79, 78, 83, 58, 10, 45, 32, 84, 104, 105, 115, 32, 100, 111,
     99, 117, 109, 101, 110, 116, 32, 101, 115, 116, 97, 98, 108, 105, 115, 104, 101, 115, 32,
     108, 101, 103, 97, 108, 32, 114, 105, 103, 104, 116, 115, 32, 97, 110, 100, 32, 111, 98,
     108, 105, 103, 97, 116, 105, 111, 110, 115, 10, 45, 32, 65, 108, 108, 32, 112, 97, 114,
     116, 105, 101, 115, 32, 115, 104, 111, 117, 108, 100, 32, 117, 110, 100, 101, 114, 115,
     116, 97, 110, 100, 32, 116, 104, 101, 105, 114, 32, 114, 101, 115, 112, 111, 110, 115,
     105, 98, 105, 108, 105, 116, 105, 101, 115, 10, 45, 32, 80, 114, 111, 102, 101, 115, 115,
     105, 111, 110, 97, 108, 32, 108, 101, 103, 97, 108, 32, 97, 100, 118, 105, 99, 101, 32,
     105, 115, 32, 114, 101, 99, 111, 109, 109, 101, 110, 100, 101, 100, 32, 102, 111, 114, 32,
     99, 111, 109, 112, 108, 101, 120, 32, 109, 97, 116, 116, 101, 114, 115, 10, 45, 32, 67,
     111, 109, 112, 108, 105, 97, 110, 99, 101, 32, 119, 105, 116, 104, 32, 97, 112, 112, 108,
     105, 99, 97, 98, 108, 101, 32, 108, 97, 119, 115, 32, 97, 110, 100, 32, 114, 101, 103,
     117, 108, 97, 116, 105, 111, 110, 115, 32, 105, 115, 32, 101, 115, 115, 101, 110, 116,
     105, 97, 108, 10, 45, 32, 73, 109, 112, 111, 114, 116, 97, 110, 116, 32, 100, 101, 97,
     100, 108, 105, 110, 101, 115, 32, 111, 114, 32, 116, 105, 109, 101, 45, 115, 101, 110,
     115, 105, 116, 105, 118, 101, 32, 114, 101, 113, 117, 105, 114, 101, 109, 101, 110, 116,
     115, 32, 109, 97, 121, 32, 97, 112, 112, 108, 121, 10, 10, 68, 79, 67, 85, 77, 69, 78, 84,
     32, 67, 72, 65, 82, 65, 67, 84, 69, 82, 73, 83, 84, 73, 67, 83, 58, 10, 45, 32, 70, 111,
     114, 109, 97, 108, 32, 108, 101, 103, 97, 108, 32, 108, 97, 110, 103, 117, 97, 103, 101,
     32, 97, 110, 100, 32, 116, 101, 114, 109, 105, 110, 111, 108, 111, 103, 121, 32, 101, 120,
     112, 101, 99, 116, 101, 100, 10, 45, 32, 77, 97, 121, 32, 99, 111, 110, 116, 97, 105, 110,
     32, 115, 112, 101, 99, 105, 102, 105, 99, 32, 99, 108, 97, 117, 115, 101, 115, 32, 97,
     110, 100, 32, 99, 111, 110, 100, 105, 116, 105, 111, 110, 115, 10, 45, 32, 67, 111, 117,
     108, 100, 32, 105, 110, 99, 108, 117, 100, 101, 32, 112, 97, 114, 116, 105, 101, 115, 39,
     32, 114, 105, 103, 104, 116, 115, 32, 97, 110, 100, 32, 114, 101, 115, 112, 111, 110, 115,
     105, 98, 105, 108, 105, 116, 105, 101, 115, 10, 45, 32, 77, 97, 121, 32, 115, 112, 101,
     99, 105, 102, 121, 32, 100, 105, 115, 112, 117, 116, 101, 32, 114, 101, 115, 111, 108,
     117, 116, 105, 111, 110, 32, 112, 114, 111, 99, 101, 100, 117, 114, 101, 115, 10, 45, 32,
     80, 111, 116, 101, 110, 116, 105, 97, 108, 32, 102, 105, 110, 97, 110, 99, 105, 97, 108,
     32, 111, 114, 32, 108, 101, 103, 97, 108, 32, 111, 98, 108, 105, 103, 97, 116, 105, 111,
     110, 115, 32, 112, 114, 101, 115, 101, 110, 116 >> >>

\* index.ts:142-154 (and 307, 319) the keywords looked for in file names; strings as UTF-16 code units
\*   contract |contract|
\*   agreement |agreement|
\*   policy |policy|
\*   terms |terms|
\*   lease |lease|
\*   rental |rental|
\*   will |will|
\*   testament |testament|
\*   power |power|
\*   attorney |attorney|
\*   rent |rent|
Kw ==
  [contract |-> << 99, 111, 110, 116, 114, 97, 99, 116 >>, agreement |-> << 97, 103, 114, 101,
     101, 109, 101, 110, 116 >>, policy |-> << 112, 111, 108, 105, 99, 121 >>,
     terms |-> << 116, 101, 114, 109, 115 >>, lease |-> << 108, 101, 97, 115, 101 >>,
     rental |-> << 114, 101, 110, 116, 97, 108 >>, will |-> << 119, 105, 108, 108 >>,
     testament |-> << 116, 101, 115, 116, 97, 109, 101, 110, 116 >>, power |-> << 112, 111,
     119, 101, 114 >>, attorney |-> << 97, 116, 116, 111, 114, 110, 101, 121 >>,
     rent |-> << 114, 101, 110, 116 >>]

\* index.ts:138-139 documentType and expectedContent; strings as UTF-16 code units
\*   documentType |legal document|
\*   expectedContent |legal clauses, terms, and conditions|
ClassGeneric ==
  [documentType |-> << 108, 101, 103, 97, 108, 32, 100, 111, 99, 117, 109, 101, 110, 116 >>,
     expectedContent |-> << 108, 101, 103, 97, 108, 32, 99, 108, 97, 117, 115, 101, 115, 44,
     32, 116, 101, 114, 109, 115, 44, 32, 97, 110, 100, 32, 99, 111, 110, 100, 105, 116, 105,
     111, 110, 115 >>]

\* index.ts:143-144 documentType and expectedContent; strings as UTF-16 code units
\*   documentType |contract or agreement|
\*   expectedContent |contractual obligations, terms, parties, and legal commitments|
ClassContract ==
  [documentType |-> << 99, 111, 110, 116, 114, 97, 99, 116, 32, 111, 114, 32, 97, 103, 114,
     101, 101, 109, 101, 110, 116 >>, expectedContent |-> << 99, 111, 110, 116, 114, 97, 99,
     116, 117, 97, 108, 32, 111, 98, 108, 105, 103, 97, 116, 105, 111, 110, 115, 44, 32, 116,
     101, 114, 109, 115, 44, 32, 112, 97, 114, 116, 105, 101, 115, 44, 32, 97, 110, 100, 32,
     108, 101, 103, 97, 108, 32, 99, 111, 109, 109, 105, 116, 109, 101, 110, 116, 115 >>]

\* index.ts:146-147 documentType and expectedContent; strings as UTF-16 code units
\*   documentType |policy or terms document|
\*   expectedContent |policies, procedures, rules, and regulatory requirements|
ClassPolicy ==
  [documentType |-> << 112, 111, 108, 105, 99, 121, 32, 111, 114, 32, 116, 101, 114, 109, 115,
     32, 100, 111, 99, 117, 109, 101, 110, 116 >>, expectedContent |-> << 112, 111, 108, 105,
     99, 105, 101, 115, 44, 32, 112, 114, 111, 99, 101, 100, 117, 114, 101, 115, 44, 32, 114,
     117, 108, 101, 115, 44, 32, 97, 110, 100, 32, 114, 101, 103, 117, 108, 97, 116, 111, 114,
     121, 32, 114, 101, 113, 117, 105, 114, 101, 109, 101, 110, 116, 115 >>]

\* index.ts:149-150 documentType and expectedContent; strings as UTF-16 code units
\*   documentType |lease or rental agreement|
\*   expectedContent |rental terms, obligations, property details, and tenant rights|
ClassLease ==
  [documentType |-> << 108, 101, 97, 115, 101, 32, 111, 114, 32, 114, 101, 110, 116, 97, 108,
     32, 97, 103, 114, 101, 101, 109, 101, 110, 116 >>, expectedContent |-> << 114, 101, 110,
     116, 97, 108, 32, 116, 101, 114, 109, 115, 44, 32, 111, 98, 108, 105, 103, 97, 116, 105,
     111, 110, 115, 44, 32, 112, 114, 111, 112, 101, 114, 116, 121, 32, 100, 101, 116, 97, 105,
     108, 115, 44, 32, 97, 110, 100, 32, 116, 101, 110, 97, 110, 116, 32, 114, 105, 103, 104,
     116, 115 >>]

\* index.ts:152-153 documentType and expectedContent; strings as UTF-16 code units
\*   documentType |will or testament|
\*   expectedContent |inheritance instructions, beneficiaries, and estate distribution|
ClassWill ==
  [documentType |-> << 119, 105, 108, 108, 32, 111, 114, 32, 116, 101, 115, 116, 97, 109, 101,
     110, 116 >>, expectedContent |-> << 105, 110, 104, 101, 114, 105, 116, 97, 110, 99, 101,
     32, 105, 110, 115, 116, 114, 117, 99, 116, 105, 111, 110, 115, 44, 32, 98, 101, 110, 101,
     102, 105, 99, 105, 97, 114, 105, 101, 115, 44, 32, 97, 110, 100, 32, 101, 115, 116, 97,
     116, 101, 32, 100, 105, 115, 116, 114, 105, 98, 117, 116, 105, 111, 110 >>]

\* index.ts:155-156 documentType and expectedContent; strings as UTF-16 code units
\*   documentType |power of attorney|
\*   expectedContent |legal authority delegation, powers granted, and limitations|
ClassPowerOfAttorney ==
  [documentType |-> << 112, 111, 119, 101, 114, 32, 111, 102, 32, 97, 116, 116, 111, 114, 110,
     101, 121 >>, expectedContent |-> << 108, 101, 103, 97, 108, 32, 97, 117, 116, 104, 111,
     114, 105, 116, 121, 32, 100, 101, 108, 101, 103, 97, 116, 105, 111, 110, 44, 32, 112, 111,
     119, 101, 114, 115, 32, 103, 114, 97, 110, 116, 101, 100, 44, 32, 97, 110, 100, 32, 108,
     105, 109, 105, 116, 97, 116, 105, 111, 110, 115 >>]

\* index.ts:266 the fixed parts of the default summary; strings as UTF-16 code units
\*   1 |This |
\*   2 | legal document (|
\*   3 |) contains important legal information that requires careful review. Based on th|
\*     |e document analysis, this appears to be a professional legal document with signi|
\*     |ficant implications for the parties involved. The document likely establishes le|
\*     |gal rights, obligations, and responsibilities that must be understood and follow|
\*     |ed. Professional legal consultation is recommended to ensure full comprehension |
\*     |of the document's terms and compliance with applicable legal requirements.|
DefaultSummaryParts ==
  << << 84, 104, 105, 115, 32 >>, << 32, 108, 101, 103, 97, 108, 32, 100, 111, 99, 117, 109,
     101, 110, 116, 32, 40 >>, << 41, 32, 99, 111, 110, 116, 97, 105, 110, 115, 32, 105, 109,
     112, 111, 114, 116, 97, 110, 116, 32, 108, 101, 103, 97, 108, 32, 105, 110, 102, 111, 114,
     109, 97, 116, 105, 111, 110, 32, 116, 104, 97, 116, 32, 114, 101, 113, 117, 105, 114, 101,
     115, 32, 99, 97, 114, 101, 102, 117, 108, 32, 114, 101, 118, 105, 101, 119, 46, 32, 66,
     97, 115, 101, 100, 32, 111, 110, 32, 116, 104, 101, 32, 100, 111, 99, 117, 109, 101, 110,
     116, 32, 97, 110, 97, 108, 121, 115, 105, 115, 44, 32, 116, 104, 105, 115, 32, 97, 112,
     112, 101, 97, 114, 115, 32, 116, 111, 32, 98, 101, 32, 97, 32, 112, 114, 111, 102, 101,
     115, 115, 105, 111, 110, 97, 108, 32, 108, 101, 103, 97, 108, 32, 100, 111, 99, 117, 109,
     101, 110, 116, 32, 119, 105, 116, 104, 32, 115, 105, 103, 110, 105, 102, 105, 99, 97, 110,
     116, 32, 105, 109, 112, 108, 105, 99, 97, 116, 105, 111, 110, 115, 32, 102, 111, 114, 32,
     116, 104, 101, 32, 112, 97, 114, 116, 105, 101, 115, 32, 105, 110, 118, 111, 108, 118,
     101, 100, 46, 32, 84, 104, 101, 32, 100, 111, 99, 117, 109, 101, 110, 116, 32, 108, 105,
     107, 101, 108, 121, 32, 101, 115, 116, 97, 98, 108, 105, 115, 104, 101, 115, 32, 108, 101,
     103, 97, 108, 32, 114, 105, 103, 104, 116, 115, 44, 32, 111, 98, 108, 105, 103, 97, 116,
     105, 111, 110, 115, 44, 32, 97, 110, 100, 32, 114, 101, 115, 112, 111, 110, 115, 105, 98,
     105, 108, 105, 116, 105, 101, 115, 32, 116, 104, 97, 116, 32, 109, 117, 115, 116, 32, 98,
     101, 32, 117, 110, 100, 101, 114, 115, 116, 111, 111, 100, 32, 97, 110, 100, 32, 102, 111,
     108, 108, 111, 119, 101, 100, 46, 32, 80, 114, 111, 102, 101, 115, 115, 105, 111, 110, 97,
     108, 32, 108, 101, 103, 97, 108, 32, 99, 111, 110, 115, 117, 108, 116, 97, 116, 105, 111,
     110, 32, 105, 115, 32, 114, 101, 99, 111, 109, 109, 101, 110, 100, 101, 100, 32, 116, 111,
     32, 101, 110, 115, 117, 114, 101, 32, 102, 117, 108, 108, 32, 99, 111, 109, 112, 114, 101,
     104, 101, 110, 115, 105, 111, 110, 32, 111, 102, 32, 116, 104, 101, 32, 100, 111, 99, 117,
     109, 101, 110, 116, 39, 115, 32, 116, 101, 114, 109, 115, 32, 97, 110, 100, 32, 99, 111,
     109, 112, 108, 105, 97, 110, 99, 101, 32, 119, 105, 116, 104, 32, 97, 112, 112, 108, 105,
     99, 97, 98, 108, 101, 32, 108, 101, 103, 97, 108, 32, 114, 101, 113, 117, 105, 114, 101,
     109, 101, 110, 116, 115, 46 >> >>

\* index.ts:271 the fixed parts of the first default key point; strings as UTF-16 code units
\*   1 |Professional |
\*   2 | legal document requiring review|
DefaultKeyPoint1Parts ==
  << << 80, 114, 111, 102, 101, 115, 115, 105, 111, 110, 97, 108, 32 >>, << 32, 108, 101, 103,
     97, 108, 32, 100, 111, 99, 117, 109, 101, 110, 116, 32, 114, 101, 113, 117, 105, 114, 105,
     110, 103, 32, 114, 101, 118, 105, 101, 119 >> >>

\* index.ts:272-275: a list of strings, each as UTF-16 code units
\*   |Contains legally binding terms and conditions|
\*   |Establishes rights and obligations for involved parties|
\*   |May include time-sensitive requirements or deadlines|
\*   |Professional legal advice recommended for interpretation|
DefaultKeyPointsRest ==
  << << 67, 111, 110, 116, 97, 105, 110, 115, 32, 108, 101, 103, 97, 108, 108, 121, 32, 98, 105,
       110, 100, 105, 110, 103, 32, 116, 101, 114, 109, 115, 32, 97, 110, 100, 32, 99, 111,
       110, 100, 105, 116, 105, 111, 110, 115 >>
   , << 69, 115, 116, 97, 98, 108, 105, 115, 104, 101, 115, 32, 114, 105, 103, 104, 116, 115,
       32, 97, 110, 100, 32, 111, 98, 108, 105, 103, 97, 116, 105, 111, 110, 115, 32, 102, 111,
       114, 32, 105, 110, 118, 111, 108, 118, 101, 100, 32, 112, 97, 114, 116, 105, 101,
       115 >>
   , << 77, 97, 121, 32, 105, 110, 99, 108, 117, 100, 101, 32, 116, 105, 109, 101, 45, 115, 101,
       110, 115, 105, 116, 105, 118, 101, 32, 114, 101, 113, 117, 105, 114, 101, 109, 101, 110,
       116, 115, 32, 111, 114, 32, 100, 101, 97, 100, 108, 105, 110, 101, 115 >>
   , << 80, 114, 111, 102, 101, 115, 115, 105, 111, 110, 97, 108, 32, 108, 101, 103, 97, 108,
       32, 97, 100, 118, 105, 99, 101, 32, 114, 101, 99, 111, 109, 109, 101, 110, 100, 101,
       100, 32, 102, 111, 114, 32, 105, 110, 116, 101, 114, 112, 114, 101, 116, 97, 116, 105,
       111, 110 >>
  >>

\* index.ts:280-284: a list of {term, explanation} pairs, strings as UTF-16 code units
\*   |Legal Document| : |A formal document creating legal rights and obligations|
\*   |Terms and Conditions| : |Specific rules and requirements that parties must follow|
\*   |Legal Compliance| : |Adherence to applicable laws and regulations|
DefaultLegalTerms ==
  << [ term |-> << 76, 101, 103, 97, 108, 32, 68, 111, 99, 117, 109, 101, 110, 116 >>
     , explanation |-> << 65, 32, 102, 111, 114, 109, 97, 108, 32, 100, 111, 99, 117, 109, 101, 110, 116,
             32, 99, 114, 101, 97, 116, 105, 110, 103, 32, 108, 101, 103, 97, 108, 32, 114,
             105, 103, 104, 116, 115, 32, 97, 110, 100, 32, 111, 98, 108, 105, 103, 97, 116,
             105, 111, 110, 115 >> ]
   , [ term |-> << 84, 101, 114, 109, 115, 32, 97, 110, 100, 32, 67, 111, 110, 100, 105, 116, 105,
             111, 110, 115 >>
     , explanation |-> << 83, 112, 101, 99, 105, 102, 105, 99, 32, 114, 117, 108, 101, 115, 32, 97, 110,
             100, 32, 114, 101, 113, 117, 105, 114, 101, 109, 101, 110, 116, 115, 32, 116, 104,
             97, 116, 32, 112, 97, 114, 116, 105, 101, 115, 32, 109, 117, 115, 116, 32, 102,
             111, 108, 108, 111, 119 >> ]
   , [ term |-> << 76, 101, 103, 97, 108, 32, 67, 111, 109, 112, 108, 105, 97, 110, 99, 101 >>
     , explanation |-> << 65, 100, 104, 101, 114, 101, 110, 99, 101, 32, 116, 111, 32, 97, 112, 112, 108,
             105, 99, 97, 98, 108, 101, 32, 108, 97, 119, 115, 32, 97, 110, 100, 32, 114, 101,
             103, 117, 108, 97, 116, 105, 111, 110, 115 >> ]
  >>

\* index.ts:288-293: a list of strings, each as UTF-16 code units
\*   |Professional legal review strongly recommended|
\*   |Ensure all parties understand their rights and obligations|
\*   |Verify compliance with applicable laws and regulations|
\*   |Check for any deadlines or time-sensitive requirements|
DefaultWarnings ==
  << << 80, 114, 111, 102, 101, 115, 115, 105, 111, 110, 97, 108, 32, 108, 101, 103, 97, 108,
       32, 114, 101, 118, 105, 101, 119, 32, 115, 116, 114, 111, 110, 103, 108, 121, 32, 114,
       101, 99, 111, 109, 109, 101, 110, 100, 101, 100 >>
   , << 69, 110, 115, 117, 114, 101, 32, 97, 108, 108, 32, 112, 97, 114, 116, 105, 101, 115, 32,
       117, 110, 100, 101, 114, 115, 116, 97, 110, 100, 32, 116, 104, 101, 105, 114, 32, 114,
       105, 103, 104, 116, 115, 32, 97, 110, 100, 32, 111, 98, 108, 105, 103, 97, 116, 105,
       111, 110, 115 >>
   , << 86, 101, 114, 105, 102, 121, 32, 99, 111, 109, 112, 108, 105, 97, 110, 99, 101, 32, 119,
       105, 116, 104, 32, 97, 112, 112, 108, 105, 99, 97, 98, 108, 101, 32, 108, 97, 119, 115,
       32, 97, 110, 100, 32, 114, 101, 103, 117, 108, 97, 116, 105, 111, 110, 115 >>
   , << 67, 104, 101, 99, 107, 32, 102, 111, 114, 32, 97, 110, 121, 32, 100, 101, 97, 100, 108,
       105, 110, 101, 115, 32, 111, 114, 32, 116, 105, 109, 101, 45, 115, 101, 110, 115, 105,
       116, 105, 118, 101, 32, 114, 101, 113, 117, 105, 114, 101, 109, 101, 110, 116, 115 >>
  >>

\* index.ts:303-305 the category, terms and warnings of a file name without keyword; strings as UTF-16 code units
\*   documentCategory |legal document|
\*   specificTerms (none)
\*   specificWarnings (none)
CategoryGeneric ==
  [documentCategory |-> << 108, 101, 103, 97, 108, 32, 100, 111, 99, 117, 109, 101, 110,
     116 >>, specificTerms |-> << >>, specificWarnings |-> << >>]

\* index.ts:307-318 the category, terms and warnings of a contract; strings as UTF-16 code units
\*   documentCategory |contractual agreement|
\*   specificTerms 1 |Contract : A legally binding agreement between parties|
\*   specificTerms 2 |Consideration : Something of value exchanged between parties|
\*   specificTerms 3 |Performance : Fulfillment of contractual obligations|
\*   specificWarnings 1 |Review all terms before signing or agreeing|
\*   specificWarnings 2 |Understand payment obligations and deadlines|
\*   specificWarnings 3 |Check termination and cancellation clauses|
CategoryContract ==
  [documentCategory |-> << 99, 111, 110, 116, 114, 97, 99, 116, 117, 97, 108, 32, 97, 103, 114,
     101, 101, 109, 101, 110, 116 >>, specificTerms |-> << [term |-> << 67, 111, 110, 116, 114,
     97, 99, 116 >>, explanation |-> << 65, 32, 108, 101, 103, 97, 108, 108, 121, 32, 98, 105,
     110, 100, 105, 110, 103, 32, 97, 103, 114, 101, 101, 109, 101, 110, 116, 32, 98, 101, 116,
     119, 101, 101, 110, 32, 112, 97, 114, 116, 105, 101, 115 >>], [term |-> << 67, 111, 110,
     115, 105, 100, 101, 114, 97, 116, 105, 111, 110 >>, explanation |-> << 83, 111, 109, 101,
     116, 104, 105, 110, 103, 32, 111, 102, 32, 118, 97, 108, 117, 101, 32, 101, 120, 99, 104,
     97, 110, 103, 101, 100, 32, 98, 101, 116, 119, 101, 101, 110, 32, 112, 97, 114, 116, 105,
     101, 115 >>], [term |-> << 80, 101, 114, 102, 111, 114, 109, 97, 110, 99, 101 >>,
     explanation |-> << 70, 117, 108, 102, 105, 108, 108, 109, 101, 110, 116, 32, 111, 102, 32,
     99, 111, 110, 116, 114, 97, 99, 116, 117, 97, 108, 32, 111, 98, 108, 105, 103, 97, 116,
     105, 111, 110, 115 >>] >>, specificWarnings |-> << << 82, 101, 118, 105, 101, 119, 32, 97,
     108, 108, 32, 116, 101, 114, 109, 115, 32, 98, 101, 102, 111, 114, 101, 32, 115, 105, 103,
     110, 105, 110, 103, 32, 111, 114, 32, 97, 103, 114, 101, 101, 105, 110, 103 >>, << 85,
     110, 100, 101, 114, 115, 116, 97, 110, 100, 32, 112, 97, 121, 109, 101, 110, 116, 32, 111,
     98, 108, 105, 103, 97, 116, 105, 111, 110, 115, 32, 97, 110, 100, 32, 100, 101, 97, 100,
     108, 105, 110, 101, 115 >>, << 67, 104, 101, 99, 107, 32, 116, 101, 114, 109, 105, 110,
     97, 116, 105, 111, 110, 32, 97, 110, 100, 32, 99, 97, 110, 99, 101, 108, 108, 97, 116,
     105, 111, 110, 32, 99, 108, 97, 117, 115, 101, 115 >> >>]

\* index.ts:319-330 the category, terms and warnings of a lease; strings as UTF-16 code units
\*   documentCategory |lease agreement|
\*   specificTerms 1 |Lease Term : Duration of the rental agreement|
\*   specificTerms 2 |Security Deposit : Money held to cover potential damages|
\*   specificTerms 3 |Tenant Rights : Legal protections for renters|
\*   specificWarnings 1 |Understand rent payment schedule and late fees|
\*   specificWarnings 2 |Review property maintenance responsibilities|
\*   specificWarnings 3 |Know your rights regarding security deposits|
CategoryLease ==
  [documentCategory |-> << 108, 101, 97, 115, 101, 32, 97, 103, 114, 101, 101, 109, 101, 110,
     116 >>, specificTerms |-> << [term |-> << 76, 101, 97, 115, 101, 32, 84, 101, 114, 109 >>,
     explanation |-> << 68, 117, 114, 97, 116, 105, 111, 110, 32, 111, 102, 32, 116, 104, 101,
     32, 114, 101, 110, 116, 97, 108, 32, 97, 103, 114, 101, 101, 109, 101, 110, 116 >>],
     [term |-> << 83, 101, 99, 117, 114, 105, 116, 121, 32, 68, 101, 112, 111, 115, 105,
     116 >>, explanation |-> << 77, 111, 110, 101, 121, 32, 104, 101, 108, 100, 32, 116, 111,
     32, 99, 111, 118, 101, 114, 32, 112, 111, 116, 101, 110, 116, 105, 97, 108, 32, 100, 97,
     109, 97, 103, 101, 115 >>], [term |-> << 84, 101, 110, 97, 110, 116, 32, 82, 105, 103,
     104, 116, 115 >>, explanation |-> << 76, 101, 103, 97, 108, 32, 112, 114, 111, 116, 101,
     99, 116, 105, 111, 110, 115, 32, 102, 111, 114, 32, 114, 101, 110, 116, 101, 114,
     115 >>] >>, specificWarnings |-> << << 85, 110, 100, 101, 114, 115, 116, 97, 110, 100, 32,
     114, 101, 110, 116, 32, 112, 97, 121, 109, 101, 110, 116, 32, 115, 99, 104, 101, 100, 117,
     108, 101, 32, 97, 110, 100, 32, 108, 97, 116, 101, 32, 102, 101, 101, 115 >>, << 82, 101,
     118, 105, 101, 119, 32, 112, 114, 111, 112, 101, 114, 116, 121, 32, 109, 97, 105, 110,
     116, 101, 110, 97, 110, 99, 101, 32, 114, 101, 115, 112, 111, 110, 115, 105, 98, 105, 108,
     105, 116, 105, 101, 115 >>, << 75, 110, 111, 119, 32, 121, 111, 117, 114, 32, 114, 105,
     103, 104, 116, 115, 32, 114, 101, 103, 97, 114, 100, 105, 110, 103, 32, 115, 101, 99, 117,
     114, 105, 116, 121, 32, 100, 101, 112, 111, 115, 105, 116, 115 >> >>]

\* index.ts:334 the fixed parts of the fallback summary; strings as UTF-16 code units
\*   1 |This |
\*   2 | file represents a |
\*   3 | titled "|
\*   4 |". As a legal document, it establishes important rights, obligations, and terms |
\*     |that govern the relationship between the involved parties. The document contains|
\*     | legally binding provisions that create enforceable duties and protections under|
\*     | the law. All parties should carefully review the document's contents to underst|
\*     |and their responsibilities and rights. Professional legal consultation is recomm|
\*     |ended to ensure full comprehension of the document's implications and to verify |
\*     |compliance with applicable legal requirements and regulations.|
FallbackSummaryParts ==
  << << 84, 104, 105, 115, 32 >>, << 32, 102, 105, 108, 101, 32, 114, 101, 112, 114, 101, 115,
     101, 110, 116, 115, 32, 97, 32 >>, << 32, 116, 105, 116, 108, 101, 100, 32, 34 >>, << 34,
     46, 32, 65, 115, 32, 97, 32, 108, 101, 103, 97, 108, 32, 100, 111, 99, 117, 109, 101, 110,
     116, 44, 32, 105, 116, 32, 101, 115, 116, 97, 98, 108, 105, 115, 104, 101, 115, 32, 105,
     109, 112, 111, 114, 116, 97, 110, 116, 32, 114, 105, 103, 104, 116, 115, 44, 32, 111, 98,
     108, 105, 103, 97, 116, 105, 111, 110, 115, 44, 32, 97, 110, 100, 32, 116, 101, 114, 109,
     115, 32, 116, 104, 97, 116, 32, 103, 111, 118, 101, 114, 110, 32, 116, 104, 101, 32, 114,
     101, 108, 97, 116, 105, 111, 110, 115, 104, 105, 112, 32, 98, 101, 116, 119, 101, 101,
     110, 32, 116, 104, 101, 32, 105, 110, 118, 111, 108, 118, 101, 100, 32, 112, 97, 114, 116,
     105, 101, 115, 46, 32, 84, 104, 101, 32, 100, 111, 99, 117, 109, 101, 110, 116, 32, 99,
     111, 110, 116, 97, 105, 110, 115, 32, 108, 101, 103, 97, 108, 108, 121, 32, 98, 105, 110,
     100, 105, 110, 103, 32, 112, 114, 111, 118, 105, 115, 105, 111, 110, 115, 32, 116, 104,
     97, 116, 32, 99, 114, 101, 97, 116, 101, 32, 101, 110, 102, 111, 114, 99, 101, 97, 98,
     108, 101, 32, 100, 117, 116, 105, 101, 115, 32, 97, 110, 100, 32, 112, 114, 111, 116, 101,
     99, 116, 105, 111, 110, 115, 32, 117, 110, 100, 101, 114, 32, 116, 104, 101, 32, 108, 97,
     119, 46, 32, 65, 108, 108, 32, 112, 97, 114, 116, 105, 101, 115, 32, 115, 104, 111, 117,
     108, 100, 32, 99, 97, 114, 101, 102, 117, 108, 108, 121, 32, 114, 101, 118, 105, 101, 119,
     32, 116, 104, 101, 32, 100, 111, 99, 117, 109, 101, 110, 116, 39, 115, 32, 99, 111, 110,
     116, 101, 110, 116, 115, 32, 116, 111, 32, 117, 110, 100, 101, 114, 115, 116, 97, 110,
     100, 32, 116, 104, 101, 105, 114, 32, 114, 101, 115, 112, 111, 110, 115, 105, 98, 105,
     108, 105, 116, 105, 101, 115, 32, 97, 110, 100, 32, 114, 105, 103, 104, 116, 115, 46, 32,
     80, 114, 111, 102, 101, 115, 115, 105, 111, 110, 97, 108, 32, 108, 101, 103, 97, 108, 32,
     99, 111, 110, 115, 117, 108, 116, 97, 116, 105, 111, 110, 32, 105, 115, 32, 114, 101, 99,
     111, 109, 109, 101, 110, 100, 101, 100, 32, 116, 111, 32, 101, 110, 115, 117, 114, 101,
     32, 102, 117, 108, 108, 32, 99, 111, 109, 112, 114, 101, 104, 101, 110, 115, 105, 111,
     110, 32, 111, 102, 32, 116, 104, 101, 32, 100, 111, 99, 117, 109, 101, 110, 116, 39, 115,
     32, 105, 109, 112, 108, 105, 99, 97, 116, 105, 111, 110, 115, 32, 97, 110, 100, 32, 116,
     111, 32, 118, 101, 114, 105, 102, 121, 32, 99, 111, 109, 112, 108, 105, 97, 110, 99, 101,
     32, 119, 105, 116, 104, 32, 97, 112, 112, 108, 105, 99, 97, 98, 108, 101, 32, 108, 101,
     103, 97, 108, 32, 114, 101, 113, 117, 105, 114, 101, 109, 101, 110, 116, 115, 32, 97, 110,
     100, 32, 114, 101, 103, 117, 108, 97, 116, 105, 111, 110, 115, 46 >> >>

\* index.ts:336 the fixed parts of the first fallback key point; strings as UTF-16 code units
\*   1 ||
\*   2 | |
\*   3 | with legal significance|
FallbackKeyPoint1Parts ==
  << << >>, << 32 >>, << 32, 119, 105, 116, 104, 32, 108, 101, 103, 97, 108, 32, 115, 105, 103,
     110, 105, 102, 105, 99, 97, 110, 99, 101 >> >>

\* index.ts:337-341: a list of strings, each as UTF-16 code units
\*   |Creates binding obligations and rights for parties|
\*   |Contains terms and conditions that must be followed|
\*   |May include financial obligations or payments|
\*   |Professional legal review recommended|
\*   |Compliance with applicable laws required|
FallbackKeyPointsRest ==
  << << 67, 114, 101, 97, 116, 101, 115, 32, 98, 105, 110, 100, 105, 110, 103, 32, 111, 98, 108,
       105, 103, 97, 116, 105, 111, 110, 115, 32, 97, 110, 100, 32, 114, 105, 103, 104, 116,
       115, 32, 102, 111, 114, 32, 112, 97, 114, 116, 105, 101, 115 >>
   , << 67, 111, 110, 116, 97, 105, 110, 115, 32, 116, 101, 114, 109, 115, 32, 97, 110, 100, 32,
       99, 111, 110, 100, 105, 116, 105, 111, 110, 115, 32, 116, 104, 97, 116, 32, 109, 117,
       115, 116, 32, 98, 101, 32, 102, 111, 108, 108, 111, 119, 101, 100 >>
   , << 77, 97, 121, 32, 105, 110, 99, 108, 117, 100, 101, 32, 102, 105, 110, 97, 110, 99, 105,
       97, 108, 32, 111, 98, 108, 105, 103, 97, 116, 105, 111, 110, 115, 32, 111, 114, 32, 112,
       97, 121, 109, 101, 110, 116, 115 >>
   , << 80, 114, 111, 102, 101, 115, 115, 105, 111, 110, 97, 108, 32, 108, 101, 103, 97, 108,
       32, 114, 101, 118, 105, 101, 119, 32, 114, 101, 99, 111, 109, 109, 101, 110, 100, 101,
       100 >>
   , << 67, 111, 109, 112, 108, 105, 97, 110, 99, 101, 32, 119, 105, 116, 104, 32, 97, 112, 112,
       108, 105, 99, 97, 98, 108, 101, 32, 108, 97, 119, 115, 32, 114, 101, 113, 117, 105, 114,
       101, 100 >>
  >>

\* index.ts:343-347: a list of {term, explanation} pairs, strings as UTF-16 code units
\*   |Legal Document| : |A formal document with legal consequences|
\*   |Legal Obligations| : |Duties that must be performed under the law|
\*   |Legal Rights| : |Entitlements protected by law|
FallbackLegalTerms ==
  << [ term |-> << 76, 101, 103, 97, 108, 32, 68, 111, 99, 117, 109, 101, 110, 116 >>
     , explanation |-> << 65, 32, 102, 111, 114, 109, 97, 108, 32, 100, 111, 99, 117, 109, 101, 110, 116,
             32, 119, 105, 116, 104, 32, 108, 101, 103, 97, 108, 32, 99, 111, 110, 115, 101,
             113, 117, 101, 110, 99, 101, 115 >> ]
   , [ term |-> << 76, 101, 103, 97, 108, 32, 79, 98, 108, 105, 103, 97, 116, 105, 111, 110, 115 >>
     , explanation |-> << 68, 117, 116, 105, 101, 115, 32, 116, 104, 97, 116, 32, 109, 117, 115, 116, 32,
             98, 101, 32, 112, 101, 114, 102, 111, 114, 109, 101, 100, 32, 117, 110, 100, 101,
             114, 32, 116, 104, 101, 32, 108, 97, 119 >> ]
   , [ term |-> << 76, 101, 103, 97, 108, 32, 82, 105, 103, 104, 116, 115 >>
     , explanation |-> << 69, 110, 116, 105, 116, 108, 101, 109, 101, 110, 116, 115, 32, 112, 114, 111, 116,
             101, 99, 116, 101, 100, 32, 98, 121, 32, 108, 97, 119 >> ]
  >>

\* index.ts:348: the string below, as UTF-16 code units
\*   |Seek professional legal advice for complex matters|
SeekAdviceWarning ==
  << 83, 101, 101, 107, 32, 112, 114, 111, 102, 101, 115, 115, 105, 111, 110, 97, 108, 32, 108,
     101, 103, 97, 108, 32, 97, 100, 118, 105, 99, 101, 32, 102, 111, 114, 32, 99, 111, 109,
     112, 108, 101, 120, 32, 109, 97, 116, 116, 101, 114, 115 >>

\* index.ts:348-353: a list of strings, each as UTF-16 code units
\*   |Professional legal review strongly recommended|
\*   |Understand all terms before agreeing or signing|
\*   |Verify compliance with applicable laws|
\*   |Check for deadlines and time-sensitive requirements|
FallbackWarnings ==
  << << 80, 114, 111, 102, 101, 115, 115, 105, 111, 110, 97, 108, 32, 108, 101, 103, 97, 108,
       32, 114, 101, 118, 105, 101, 119, 32, 115, 116, 114, 111, 110, 103, 108, 121, 32, 114,
       101, 99, 111, 109, 109, 101, 110, 100, 101, 100 >>
   , << 85, 110, 100, 101, 114, 115, 116, 97, 110, 100, 32, 97, 108, 108, 32, 116, 101, 114,
       109, 115, 32, 98, 101, 102, 111, 114, 101, 32, 97, 103, 114, 101, 101, 105, 110, 103,
       32, 111, 114, 32, 115, 105, 103, 110, 105, 110, 103 >>
   , << 86, 101, 114, 105, 102, 121, 32, 99, 111, 109, 112, 108, 105, 97, 110, 99, 101, 32, 119,
       105, 116, 104, 32, 97, 112, 112, 108, 105, 99, 97, 98, 108, 101, 32, 108, 97, 119,
       115 >>
   , << 67, 104, 101, 99, 107, 32, 102, 111, 114, 32, 100, 101, 97, 100, 108, 105, 110, 101,
       115, 32, 97, 110, 100, 32, 116, 105, 109, 101, 45, 115, 101, 110, 115, 105, 116, 105,
       118, 101, 32, 114, 101, 113, 117, 105, 114, 101, 109, 101, 110, 116, 115 >>
  >>

---------------------------------------------------------------------------
(* Inputs: the files a user uploads, the clock and the replies of the      *)
(* text-generation endpoint.                                               *)

\* a file name
\*   |notes.txt|
NameNotesTxt ==
  << 110, 111, 116, 101, 115, 46, 116, 120, 116 >>

\* a file name
\*   |lease.pdf|
NameLeasePdf ==
  << 108, 101, 97, 115, 101, 46, 112, 100, 102 >>

\* a file name
\*   |Service_Agreement.docx|
NameServiceAgreementDocx ==
  << 83, 101, 114, 118, 105, 99, 101, 95, 65, 103, 114, 101, 101, 109, 101, 110, 116, 46, 100,
     111, 99, 120 >>

\* a file name
\*   |privacy-policy.txt|
NamePrivacyPolicyTxt ==
  << 112, 114, 105, 118, 97, 99, 121, 45, 112, 111, 108, 105, 99, 121, 46, 116, 120, 116 >>

\* a file name
\*   |last_will.PDF|
NameLastWillPdf ==
  << 108, 97, 115, 116, 95, 119, 105, 108, 108, 46, 80, 68, 70 >>

\* a file name
\*   |power_of_attorney.pdf|
NamePowerOfAttorneyPdf ==
  << 112, 111, 119, 101, 114, 95, 111, 102, 95, 97, 116, 116, 111, 114, 110, 101, 121, 46, 112,
     100, 102 >>

\* a file name
\*   |README|
NameReadme ==
  << 82, 69, 65, 68, 77, 69 >>

\* the 44 bytes of Scenario A
\*   |This Agreement is governed by the laws of X.|
BytesScenarioA ==
  << 84, 104, 105, 115, 32, 65, 103, 114, 101, 101, 109, 101, 110, 116, 32, 105, 115, 32, 103,
     111, 118, 101, 114, 110, 101, 100, 32, 98, 121, 32, 116, 104, 101, 32, 108, 97, 119, 115,
     32, 111, 102, 32, 88, 46 >>

\* a text file: byte order mark, white space around, a form feed, a NUL, two multi-byte characters and a malformed byte
\*   |\xef\xbb\xbf  Lease: the tenant pays rent monthly;\x0c caf\xc3\xa9 clause \xf0\x9f\x98\x|
\*   |80 applies,\xff 30 days notice.\x00\x0d\x0a|
BytesLeaseText ==
  << 239, 187, 191, 32, 32, 76, 101, 97, 115, 101, 58, 32, 116, 104, 101, 32, 116, 101, 110,
     97, 110, 116, 32, 112, 97, 121, 115, 32, 114, 101, 110, 116, 32, 109, 111, 110, 116, 104,
     108, 121, 59, 12, 32, 99, 97, 102, 195, 169, 32, 99, 108, 97, 117, 115, 101, 32, 240, 159,
     152, 128, 32, 97, 112, 112, 108, 105, 101, 115, 44, 255, 32, 51, 48, 32, 100, 97, 121,
     115, 32, 110, 111, 116, 105, 99, 101, 46, 0, 13, 10 >>

\* an empty file
BytesEmpty ==
  << >>

\* a PDF with one content stream
\*   |%PDF-1.4\x0a1 0 obj\x0a<< /Length 96 >>\x0astream\x0d\x0aBT /F1 12 Tf (This Lease \x5c05|
\*   |0the \x5c"Lease\x5c"\x5c051 binds Landlord) Tj\x0a[(and the ) -20 (Tenant \x5c(you\x5c).|
\*   |)] TJ (12.5) Tj ET\x0d\x0aendstream\x0aendobj\x0atrailer (v1) (7 1.0)\x0a%%EOF|
BytesPdf ==
  << 37, 80, 68, 70, 45, 49, 46, 52, 10, 49, 32, 48, 32, 111, 98, 106, 10, 60, 60, 32, 47, 76,
     101, 110, 103, 116, 104, 32, 57, 54, 32, 62, 62, 10, 115, 116, 114, 101, 97, 109, 13, 10,
     66, 84, 32, 47, 70, 49, 32, 49, 50, 32, 84, 102, 32, 40, 84, 104, 105, 115, 32, 76, 101,
     97, 115, 101, 32, 92, 48, 53, 48, 116, 104, 101, 32, 92, 34, 76, 101, 97, 115, 101, 92,
     34, 92, 48, 53, 49, 32, 98, 105, 110, 100, 115, 32, 76, 97, 110, 100, 108, 111, 114, 100,
     41, 32, 84, 106, 10, 91, 40, 97, 110, 100, 32, 116, 104, 101, 32, 41, 32, 45, 50, 48, 32,
     40, 84, 101, 110, 97, 110, 116, 32, 92, 40, 121, 111, 117, 92, 41, 46, 41, 93, 32, 84, 74,
     32, 40, 49, 50, 46, 53, 41, 32, 84, 106, 32, 69, 84, 13, 10, 101, 110, 100, 115, 116, 114,
     101, 97, 109, 10, 101, 110, 100, 111, 98, 106, 10, 116, 114, 97, 105, 108, 101, 114, 32,
     40, 118, 49, 41, 32, 40, 55, 32, 49, 46, 48, 41, 10, 37, 37, 69, 79, 70 >>

\* a PDF with no text the regular expressions find
\*   |%PDF-1.4\x0a%\xe2\xe3\xcf\xd3\x0a\x00\x01\x02\xff\xfe\x9c stream\x0a|
BytesPdfCorrupt ==
  << 37, 80, 68, 70, 45, 49, 46, 52, 10, 37, 226, 227, 207, 211, 10, 0, 1, 2, 255, 254, 156,
     32, 115, 116, 114, 101, 97, 109, 10 >>

\* the start of a DOCX (ZIP) file
\*   |PK\x03\x04\x14\x00\x06\x00\x08\x00word/document.xml\xa5\x92\xc1n\xc20\x0c\x86 Tenant sha|
\*   |ll pay \x1f\x8b the rent \x00\x00 on time|
BytesDocx ==
  << 80, 75, 3, 4, 20, 0, 6, 0, 8, 0, 119, 111, 114, 100, 47, 100, 111, 99, 117, 109, 101, 110,
     116, 46, 120, 109, 108, 165, 146, 193, 110, 194, 48, 12, 134, 32, 84, 101, 110, 97, 110,
     116, 32, 115, 104, 97, 108, 108, 32, 112, 97, 121, 32, 31, 139, 32, 116, 104, 101, 32,
     114, 101, 110, 116, 32, 0, 0, 32, 111, 110, 32, 116, 105, 109, 101 >>

\* a value of new Date().toISOString()
\*   |2025-09-15T05:15:08.512Z|
Timestamp1 ==
  << 50, 48, 50, 53, 45, 48, 57, 45, 49, 53, 84, 48, 53, 58, 49, 53, 58, 48, 56, 46, 53, 49,
     50, 90 >>

\* a later value of new Date().toISOString()
\*   |2025-09-15T05:15:09.003Z|
Timestamp2 ==
  << 50, 48, 50, 53, 45, 48, 57, 45, 49, 53, 84, 48, 53, 58, 49, 53, 58, 48, 57, 46, 48, 48,
     51, 90 >>

\* text of a summary the endpoint returns (81 characters)
\*   |This lease sets the rent, the term and the duties of the landlord and the tenant. |
ReplySummaryStem ==
  << 84, 104, 105, 115, 32, 108, 101, 97, 115, 101, 32, 115, 101, 116, 115, 32, 116, 104, 101,
     32, 114, 101, 110, 116, 44, 32, 116, 104, 101, 32, 116, 101, 114, 109, 32, 97, 110, 100,
     32, 116, 104, 101, 32, 100, 117, 116, 105, 101, 115, 32, 111, 102, 32, 116, 104, 101, 32,
     108, 97, 110, 100, 108, 111, 114, 100, 32, 97, 110, 100, 32, 116, 104, 101, 32, 116, 101,
     110, 97, 110, 116, 46, 32 >>

\* a key point the endpoint returns
\*   |Rent is due monthly|
ReplyKeyPoint ==
  << 82, 101, 110, 116, 32, 105, 115, 32, 100, 117, 101, 32, 109, 111, 110, 116, 104, 108, 121 >>

\* a legal term the endpoint returns
\*   |Lessee|
ReplyTerm ==
  << 76, 101, 115, 115, 101, 101 >>

\* its explanation
\*   |The tenant|
ReplyExplanation ==
  << 84, 104, 101, 32, 116, 101, 110, 97, 110, 116 >>

\* a warning the endpoint returns
\*   |Late fees apply|
ReplyWarning ==
  << 76, 97, 116, 101, 32, 102, 101, 101, 115, 32, 97, 112, 112, 108, 121 >>

---------------------------------------------------------------------------
(* The placeholder text (index.ts:132-182).                                *)

\* index.ts:136-157  the document type and expected content the file name
\* suggests; the first matching rule wins
FilenameClass(original_filename) ==
  LET filename == ToLowerCase(original_filename)
  IN  IF Includes(filename, Kw.contract) \/ Includes(filename, Kw.agreement)
        THEN ClassContract
      ELSE IF Includes(filename, Kw.policy) \/ Includes(filename, Kw.terms)
        THEN ClassPolicy
      ELSE IF Includes(filename, Kw.lease) \/ Includes(filename, Kw.rental)
        THEN ClassLease
      ELSE IF Includes(filename, Kw.will) \/ Includes(filename, Kw.testament)
        THEN ClassWill
      ELSE IF Includes(filename, Kw.power) /\ Includes(filename, Kw.attorney)
        THEN ClassPowerOfAttorney
      ELSE ClassGeneric

\* index.ts:159-181  the template literal; now is new Date().toISOString()
PlaceholderText(document, now) ==
  LET class == FilenameClass(document.original_filename)
  IN  PlaceholderParts[1] \o document.original_filename
        \o PlaceholderParts[2] \o ToUpperCase(class.documentType)
        \o PlaceholderParts[3] \o ToUpperCase(document.file_type)
        \o PlaceholderParts[4] \o NumberToString(document.file_size)
        \o PlaceholderParts[5] \o now
        \o PlaceholderParts[6] \o class.documentType
        \o PlaceholderParts[7] \o class.expectedContent
        \o PlaceholderParts[8]

\* the test of an earlier revision (part_002:100): text.length < 20
NeedsPlaceholderBelow20(text) == text = << >> \/ Len(text) < 20

\* index.ts:133  if (!text || text.length < 50)
NeedsPlaceholder(text) == text = << >> \/ Len(text) < MinTextLength

\* index.ts:49-182  the text the handler holds when it builds the prompt
TextForAnalysis(document, bytes, failed, now) ==
  LET text == CleanText(ExtractText(document.file_type, bytes, failed))
  IN  IF NeedsPlaceholder(text) THEN PlaceholderText(document, now) ELSE text

---------------------------------------------------------------------------
(* JSON values and the reply of the text-generation endpoint.              *)
(*                                                                         *)
(* A JSON value is a record tagged with its JavaScript type.  The text of  *)
(* a reply is a sequence of tokens: a code fence, the word json, white     *)
(* space, prose (text that is not JSON), or a serialised JSON value.       *)

JUndefined == [t |-> "undefined"]

JNull == [t |-> "null"]

JBool(b) == [t |-> "boolean", v |-> b]

JNum(n) == [t |-> "number", v |-> n]

JStr(s) == [t |-> "string", v |-> s]

JArr(items) == [t |-> "array", v |-> items]

JObj(fields) == [t |-> "object", v |-> fields]

\* a list of strings, as a JSON array
JStrings(list) == JArr([i \in 1..Len(list) |-> JStr(list[i])])

\* a list of {term, explanation} pairs, as a JSON array of objects
JTerms(list) ==
  JArr([i \in 1..Len(list) |->
          JObj([k \in {"term", "explanation"} |->
                  IF k = "term" THEN JStr(list[i].term) ELSE JStr(list[i].explanation)])])

TokFence == [k |-> "fence"]

TokJsonWord == [k |-> "jsonword"]

TokWs == [k |-> "ws"]

TokProse == [k |-> "prose"]

TokJson(value) == [k |-> "json", v |-> value]

\* String.prototype.trim() on a token sequence
TrimTokens(toks) ==
  IF \A i \in 1..Len(toks) : toks[i].k = "ws"
    THEN << >>
    ELSE LET first == CHOOSE i \in 1..Len(toks) :
                        toks[i].k # "ws" /\ \A j \in 1..(i - 1) : toks[j].k = "ws"
             last  == CHOOSE i \in 1..Len(toks) :
                        toks[i].k # "ws" /\ \A j \in (i + 1)..Len(toks) : toks[j].k = "ws"
         IN  SubSeq(toks, first, last)

\* /\s*```/ at position k of the tokens
ClosingFenceAt(toks, k) ==
  \E j \in k..Len(toks) :
     /\ toks[j].k = "fence"
     /\ \A m \in k..(j - 1) : toks[m].k = "ws"

\* index.ts:254  jsonText.match(/```(?:json)?\s*([\s\S]*?)\s*```/): the
\* capture of the leftmost match, or no match
FenceMatch(toks) ==
  LET opens == {i \in 1..Len(toks) :
                  /\ toks[i].k = "fence"
                  /\ \E j \in (i + 1)..Len(toks) : toks[j].k = "fence"}
  IN  IF opens = {} THEN [matched |-> FALSE, capture |-> << >>]
      ELSE LET i == Min(opens)
               \* (?:json)? is greedy, and giving the word back never helps
               \* a match: the closing fence is found either way
               a == IF i + 1 <= Len(toks) /\ toks[i + 1].k = "jsonword" THEN i + 2 ELSE i + 1
               \* \s* is greedy; a later fence exists, so a token that is not
               \* white space follows
               p == Min({j \in a..Len(toks) : toks[j].k # "ws"})
               \* ([\s\S]*?) is lazy: it stops where \s*``` first matches
               k == Min({j \in p..Len(toks) : ClosingFenceAt(toks, j)})
           IN  [matched |-> TRUE, capture |-> SubSeq(toks, p, k - 1)]

\* index.ts:260  .replace(/^\s*```\s*/, '')
StripLeadingFence(toks) ==
  LET body == {i \in 1..Len(toks) : toks[i].k # "ws"}
  IN  IF body # {} /\ toks[Min(body)].k = "fence"
        THEN LET rest == {i \in (Min(body) + 1)..Len(toks) : toks[i].k # "ws"}
             IN  IF rest = {} THEN << >> ELSE SubSeq(toks, Min(rest), Len(toks))
        ELSE toks

Max(S) == CHOOSE x \in S : \A y \in S : x >= y

\* index.ts:260  .replace(/\s*```\s*$/, '')
StripTrailingFence(toks) ==
  LET body == {i \in 1..Len(toks) : toks[i].k # "ws"}
  IN  IF body # {} /\ toks[Max(body)].k = "fence"
        THEN LET rest == {i \in 1..(Max(body) - 1) : toks[i].k # "ws"}
             IN  IF rest = {} THEN << >> ELSE SubSeq(toks, 1, Max(rest))
        ELSE toks

\* index.ts:251-260  the text handed to JSON.parse
JsonText(aiContent) ==
  LET trimmed == TrimTokens(aiContent)
      m == FenceMatch(trimmed)
      inner == IF m.matched THEN TrimTokens(m.capture) ELSE trimmed
  IN  StripTrailingFence(StripLeadingFence(inner))

\* index.ts:262  JSON.parse(jsonText): a value when the text is one JSON
\* document with white space around it at most, a SyntaxError otherwise
JsonParse(toks) ==
  LET body == TrimTokens(toks)
  IN  IF Len(body) = 1 /\ body[1].k = "json"
        THEN [threw |-> FALSE, value |-> body[1].v]
        ELSE [threw |-> TRUE, value |-> JUndefined]

\* value.name for a value that is not null or undefined
GetProperty(value, name) ==
  IF value.t = "object" /\ name \in DOMAIN value.v THEN value.v[name] ELSE JUndefined

\* !value
IsFalsy(value) ==
  \/ value.t \in {"undefined", "null"}
  \/ value.t = "boolean" /\ ~value.v
  \/ value.t = "number" /\ value.v = 0
  \/ value.t = "string" /\ value.v = << >>

\* value.length < n, for a truthy value: strings and arrays have a length;
\* for any other value length is undefined and the comparison is false
LengthBelow(value, n) ==
  /\ value.t \in {"string", "array"}
  /\ Len(value.v) < n

\* Array.isArray(value)
IsArray(value) == value.t = "array"

---------------------------------------------------------------------------
(* The analysis (index.ts:245-355).                                        *)

\* index.ts:266  the default summary
DefaultSummary(document) ==
  DefaultSummaryParts[1] \o ToUpperCase(document.file_type)
    \o DefaultSummaryParts[2] \o document.original_filename
    \o DefaultSummaryParts[3]

\* index.ts:270-276  the default key points
DefaultKeyPoints(document) ==
  << DefaultKeyPoint1Parts[1] \o ToUpperCase(document.file_type) \o DefaultKeyPoint1Parts[2] >>
    \o DefaultKeyPointsRest

\* index.ts:264-294  the parsed value with the defaults put in for the
\* fields that fail validation.  Reading a property of null throws, and so
\* does (the module being strict code) setting one on a number, a string
\* or a boolean; an array takes the properties like an object.
ValidatedAnalysis(value, document) ==
  LET summary    == GetProperty(value, "summary")
      keyPoints  == GetProperty(value, "keyPoints")
      legalTerms == GetProperty(value, "legalTerms")
      warnings   == GetProperty(value, "warnings")
  IN  IF value.t \in {"null", "number", "string", "boolean"}
        THEN [threw |-> TRUE, value |-> JUndefined]
        ELSE [threw |-> FALSE,
              value |->
                [summary    |-> IF IsFalsy(summary) \/ LengthBelow(summary, MinSummaryLength)
                                  THEN JStr(DefaultSummary(document)) ELSE summary,
                 keyPoints  |-> IF IsFalsy(keyPoints) \/ ~IsArray(keyPoints)
                                  THEN JStrings(DefaultKeyPoints(document)) ELSE keyPoints,
                 legalTerms |-> IF IsFalsy(legalTerms) \/ ~IsArray(legalTerms)
                                  THEN JTerms(DefaultLegalTerms) ELSE legalTerms,
                 warnings   |-> IF IsFalsy(warnings) \/ ~IsArray(warnings)
                                  THEN JStrings(DefaultWarnings) ELSE warnings]]

\* index.ts:300-331  the category the file name suggests, with its terms
\* and warnings (none for the generic category)
FallbackCategory(original_filename) ==
  LET filename == ToLowerCase(original_filename)
  IN  IF Includes(filename, Kw.contract) \/ Includes(filename, Kw.agreement)
        THEN CategoryContract
      ELSE IF Includes(filename, Kw.lease) \/ Includes(filename, Kw.rent)
        THEN CategoryLease
      ELSE CategoryGeneric

\* index.ts:296-355  the analysis built when parsing or validation threw
FallbackAnalysis(document) ==
  LET fileType == ToUpperCase(document.file_type)
      c == FallbackCategory(document.original_filename)
  IN  [summary    |-> JStr(FallbackSummaryParts[1] \o fileType
                             \o FallbackSummaryParts[2] \o c.documentCategory
                             \o FallbackSummaryParts[3] \o document.original_filename
                             \o FallbackSummaryParts[4]),
       keyPoints  |-> JStrings(<< FallbackKeyPoint1Parts[1] \o fileType \o FallbackKeyPoint1Parts[2] \o c.documentCategory
                                    \o FallbackKeyPoint1Parts[3] >>
                                 \o FallbackKeyPointsRest),
       legalTerms |-> JTerms(IF Len(c.specificTerms) > 0 THEN c.specificTerms
                                                         ELSE FallbackLegalTerms),
       warnings   |-> JStrings(IF Len(c.specificWarnings) > 0
                                 THEN c.specificWarnings \o << SeekAdviceWarning >>
                                 ELSE FallbackWarnings)]

\* index.ts:249-355  analysisResult for the reply text aiContent; a reply
\* part without text makes aiContent.trim() throw inside the try
AnalysisOf(hasText, aiContent, document) ==
  LET parsed == IF hasText THEN JsonParse(JsonText(aiContent))
                           ELSE [threw |-> TRUE, value |-> JUndefined]
      valid  == IF parsed.threw THEN parsed ELSE ValidatedAnalysis(parsed.value, document)
  IN  IF valid.threw THEN FallbackAnalysis(document) ELSE valid.value

\* index.ts:364-366  value || []
OrEmptyArray(value) == IF IsFalsy(value) THEN JArr(<< >>) ELSE value

---------------------------------------------------------------------------
(* State.                                                                  *)
(*                                                                         *)
(* documents  the rows of the documents table, by id                       *)
(* storage    the objects of the documents bucket, by path                 *)
(* runs       the invocations of process-document, by arrival order: the   *)
(*            place each has reached and the values of its local variables *)

\* the ids the store can hand out and the invocations of a behaviour, as
\* many as the initial state provides for
DocIds == DOMAIN documents

RunIds == DOMAIN runs

\* 'txt' and the other file types the upload page derives from file names
TypeTxt == << 116, 120, 116 >>

\* DocumentUpload.tsx:104  fileExt || 'unknown'
TypeUnknown == << 117, 110, 107, 110, 111, 119, 110 >>

NoDoc == [exists |-> FALSE]

NoFile == [exists |-> FALSE]

\* a column that holds SQL NULL
Unset == JNull

IsSet(column) == column.t # "null"

\* what the collaborators of a run did, in the order the run met them;
\* "n/a" for a collaborator the run has not reached
NoEnv ==
  [key |-> "n/a", lookup |-> "n/a", download |-> "n/a", extract |-> "n/a",
   now |-> << >>, reply |-> 0, update |-> "n/a", secondary |-> "n/a", catch |-> "n/a"]

OkOrFail(failed) == IF failed THEN "fail" ELSE "ok"

\* the run has not arrived yet.  Besides the handler's place (pc) and local
\* variables, a run records for the properties: the behaviour of its
\* collaborators (env), the runs that had returned when it arrived (after),
\* whether it substituted the placeholder, how often it downloaded, called
\* the endpoint and wrote the analysis or the status, what it answered
\* (response), the status of its document when it answered, and whether
\* its document was completed or in error when it arrived
IdleRun ==
  [pc |-> "idle", documentId |-> 0, document |-> NoDoc, fileData |-> << >>,
   text |-> << >>, analysisResult |-> JUndefined, error |-> "none",
   response |-> "none", env |-> NoEnv, after |-> {}, placeholder |-> FALSE,
   downloads |-> 0, llmCalls |-> 0, analysisWrites |-> 0, statusWrites |-> 0,
   statusAfter |-> "none", arrivedSettled |-> FALSE]

\* control leaves the try block: its block-scoped variables are gone
LeaveTry(run) ==
  [run EXCEPT !.document = NoDoc, !.fileData = << >>, !.text = << >>,
              !.analysisResult = JUndefined]

\* throw new Error(message): control passes to the catch block of line 393
Throw(run, message) == [LeaveTry(run) EXCEPT !.pc = "catch", !.error = message]

\* no documents, no files and no invocations yet, with room for docs
\* documents and n invocations
InitPipeline(docs, n) ==
  /\ documents = [d \in 1..docs |-> NoDoc]
  /\ storage = [p \in 1..docs |-> NoFile]
  /\ runs = [r \in 1..n |-> IdleRun]

\* the status of the row with this id in the table docs; "absent" when
\* there is no such row
StatusIn(docs, id) ==
  IF id \in DocIds /\ docs[id].exists THEN docs[id].processing_status ELSE "absent"

---------------------------------------------------------------------------
(* The upload page (DocumentUpload.tsx:60-180).                            *)

\* DocumentUpload.tsx:76  fileItem.file.name.split('.').pop()
FileExt(name) ==
  LET dots == {i \in 1..Len(name) : name[i] = 46}
  IN  IF dots = {} THEN name ELSE SubSeq(name, Max(dots) + 1, Len(name))

\* DocumentUpload.tsx:36  file.name.replace(/\.[^/.]+$/, "")
TitleOf(name) ==
  LET dots == {i \in 1..Len(name) : name[i] = 46}
  IN  IF /\ dots # {}
         /\ Max(dots) < Len(name)
         /\ \A i \in (Max(dots) + 1)..Len(name) : name[i] # 47
        THEN SubSeq(name, 1, Max(dots) - 1)
        ELSE name

\* DocumentUpload.tsx:97-109  the row the upload page inserts
NewDocument(file, path) ==
  [exists |-> TRUE,
   title |-> TitleOf(file.name),
   original_filename |-> file.name,
   file_path |-> path,
   file_type |-> IF FileExt(file.name) = << >> THEN TypeUnknown ELSE FileExt(file.name),
   file_size |-> Len(file.bytes),
   processing_status |-> "processing",
   original_text |-> Unset,
   simplified_summary |-> Unset,
   key_points |-> Unset,
   legal_terms |-> Unset,
   warnings |-> Unset]

\* the next run to arrive, 0 when the bound is reached
NextRun ==
  IF \A r \in RunIds : runs[r].pc # "idle" THEN 0
  ELSE Min({r \in RunIds : runs[r].pc = "idle"})

\* the next document id, 0 when the bound is reached
NextDocId ==
  IF \A d \in DocIds : storage[d].exists THEN 0
  ELSE Min({d \in DocIds : ~storage[d].exists})

\* index.ts:10-28  the request arrives; without the API key the handler
\* throws before it reads the request body
Arrive(id, keyConfigured) ==
  LET run == [IdleRun EXCEPT !.documentId = id,
                             !.env.key = OkOrFail(~keyConfigured),
                             !.after = {r \in RunIds : runs[r].pc = "returned"},
                             !.arrivedSettled =
                                StatusIn(documents, id) \in {"completed", "error"}]
  IN  IF keyConfigured THEN [run EXCEPT !.pc = "lookup"]
                       ELSE Throw(run, "Google API key not configured")

\* DocumentUpload.tsx:60-137  uploadFile: the file is stored, the row is
\* inserted with status processing, and processWithAI invokes
\* process-document for it (DocumentUpload.tsx:139-146)
UploadStep(file, docError, keyConfigured) ==
  LET d == NextDocId
      r == NextRun
  IN  /\ d # 0
      /\ r # 0
      /\ storage' = [storage EXCEPT ![d] = [exists |-> TRUE, bytes |-> file.bytes]]
      /\ IF docError
           THEN UNCHANGED <<documents, runs>>
           ELSE /\ documents' = [documents EXCEPT ![d] = NewDocument(file, d)]
                /\ runs' = [runs EXCEPT ![r] = Arrive(d, keyConfigured)]

---------------------------------------------------------------------------
(* process-document (index.ts:10-417).                                     *)

\* any caller invokes the function for a document id
InvokeStep(r, id, keyConfigured) ==
  /\ r = NextRun
  /\ runs' = [runs EXCEPT ![r] = Arrive(id, keyConfigured)]
  /\ UNCHANGED <<documents, storage>>

\* index.ts:29-38  select the row; an error of the store and a missing row
\* both throw 'Document not found'
LookupStep(r, docError) ==
  /\ runs[r].pc = "lookup"
  /\ LET id == runs[r].documentId
         document == IF id \in DocIds THEN documents[id] ELSE NoDoc
         run == [runs[r] EXCEPT !.env.lookup = OkOrFail(docError \/ ~document.exists)]
     IN  runs' = [runs EXCEPT ![r] =
           IF docError \/ ~document.exists
             THEN Throw(run, "Document not found")
             ELSE [run EXCEPT !.pc = "download", !.document = document]]
  /\ UNCHANGED <<documents, storage>>

\* index.ts:40-47  download the file
DownloadStep(r, downloadError) ==
  /\ runs[r].pc = "download"
  /\ LET path == runs[r].document.file_path
         run == [runs[r] EXCEPT !.env.download = OkOrFail(downloadError),
                                !.downloads = @ + 1]
     IN  runs' = [runs EXCEPT ![r] =
           IF downloadError \/ ~storage[path].exists
             THEN Throw(run, "Failed to download document")
             ELSE [run EXCEPT !.pc = "extract", !.fileData = storage[path].bytes]]
  /\ UNCHANGED <<documents, storage>>

\* index.ts:49-184  the run after extracting, cleaning and substituting
\* the placeholder; failed: the extraction throws, which the inner catch
\* of lines 124-127 turns into the empty text
ExtractedRun(run, failed, now) ==
  LET extracted == CleanText(ExtractText(run.document.file_type, run.fileData, failed))
  IN  [run EXCEPT !.pc = "fetch",
                  !.env.extract = OkOrFail(failed),
                  !.env.now = IF NeedsPlaceholder(extracted) THEN now ELSE << >>,
                  !.placeholder = NeedsPlaceholder(extracted),
                  !.fileData = << >>,
                  !.text = TextForAnalysis(run.document, run.fileData, failed, now)]

\* ExtractStep without the inner try/catch: a failed extraction reaches
\* the outer catch block
ExtractStepUncaught(r, failed, now) ==
  /\ runs[r].pc = "extract"
  /\ runs' = [runs EXCEPT ![r] =
       IF failed THEN Throw([@ EXCEPT !.env.extract = "fail"], "extraction failed")
                 ELSE ExtractedRun(@, FALSE, now)]
  /\ UNCHANGED <<documents, storage>>

\* index.ts:49-184  extract, clean, substitute the placeholder
ExtractStep(r, failed, now) ==
  /\ runs[r].pc = "extract"
  /\ runs' = [runs EXCEPT ![r] = ExtractedRun(@, failed, now)]
  /\ UNCHANGED <<documents, storage>>

\* index.ts:186-355  call the endpoint with the prompt and build the
\* analysis; reply is the k-th reply of the endpoint.  A reply that is not
\* ok throws; so does a reply with no candidate (reading
\* candidates[0].content of undefined, line 246)
FetchStep(r, k, reply) ==
  /\ runs[r].pc = "fetch"
  /\ LET run == [runs[r] EXCEPT !.env.reply = k, !.llmCalls = @ + 1]
     IN  runs' = [runs EXCEPT ![r] =
           IF ~reply.ok THEN Throw(run, "Failed to process document with AI")
           ELSE IF ~reply.hasCandidate THEN Throw(run, "TypeError")
           ELSE [run EXCEPT !.pc = "update",
                            !.analysisResult =
                               AnalysisOf(reply.hasText, reply.text, runs[r].document)]]
  /\ UNCHANGED <<documents, storage>>

\* an update that marks the document completed and leaves the analysis to
\* a later write
AnalysisUpdateStatusOnly(text, analysisResult) == [processing_status |-> "completed"]

\* AnalysisUpdate without the cut of original_text
AnalysisUpdateUncut(text, analysisResult) ==
  [processing_status  |-> "completed",
   original_text      |-> JStr(text),
   simplified_summary |-> analysisResult.summary,
   key_points         |-> OrEmptyArray(analysisResult.keyPoints),
   legal_terms        |-> OrEmptyArray(analysisResult.legalTerms),
   warnings           |-> OrEmptyArray(analysisResult.warnings)]

\* index.ts:360-367  the columns the analysis update writes
AnalysisUpdate(text, analysisResult) ==
  [processing_status  |-> "completed",
   original_text      |-> JStr(Substring(text, 0, OriginalTextCap)),
   simplified_summary |-> analysisResult.summary,
   key_points         |-> OrEmptyArray(analysisResult.keyPoints),
   legal_terms        |-> OrEmptyArray(analysisResult.legalTerms),
   warnings           |-> OrEmptyArray(analysisResult.warnings)]

\* UpdateRow with a rule the code does not have: a row that is already
\* completed is marked error when it is updated again
UpdateRowOnce(id, columns) ==
  IF id \in DocIds /\ documents[id].exists
    THEN [documents EXCEPT ![id] =
            [c \in DOMAIN documents[id] |->
               IF c = "processing_status" /\ documents[id].processing_status = "completed"
                 THEN "error"
               ELSE IF c \in DOMAIN columns THEN columns[c] ELSE documents[id][c]]]
    ELSE documents

\* UpdateRow with a lock the code does not have: only a row that is still
\* processing is updated
UpdateRowIfProcessing(id, columns) ==
  IF id \in DocIds /\ documents[id].exists /\ documents[id].processing_status = "processing"
    THEN [documents EXCEPT ![id] =
            [c \in DOMAIN documents[id] |->
               IF c \in DOMAIN columns THEN columns[c] ELSE documents[id][c]]]
    ELSE documents

\* .update(columns).eq('id', id): the row with this id, if there is one,
\* gets the columns in one statement
UpdateRow(id, columns) ==
  IF id \in DocIds /\ documents[id].exists
    THEN [documents EXCEPT ![id] =
            [c \in DOMAIN documents[id] |->
               IF c \in DOMAIN columns THEN columns[c] ELSE documents[id][c]]]
    ELSE documents

\* index.ts:357-391  write the analysis; on success return the analysis
UpdateStep(r, updateError) ==
  /\ runs[r].pc = "update"
  /\ IF updateError
       THEN /\ runs' = [runs EXCEPT ![r] =
                 [@ EXCEPT !.pc = "secondary", !.env.update = "fail"]]
            /\ UNCHANGED documents
       ELSE /\ documents' = UpdateRow(runs[r].documentId,
                                      AnalysisUpdate(runs[r].text, runs[r].analysisResult))
            /\ runs' = [runs EXCEPT ![r] =
                 [@ EXCEPT !.pc = "returned", !.response = "success",
                           !.env.update = "ok",
                           !.analysisWrites = @ + 1,
                           !.statusAfter = StatusIn(documents', runs[r].documentId)]]
  /\ UNCHANGED storage

\* SecondaryStep with a rule the code does not have: the update to error
\* clears original_text and the analysis columns too
SecondaryStepClearing(r, failed) ==
  /\ runs[r].pc = "secondary"
  /\ documents' = IF failed THEN documents
                  ELSE UpdateRow(runs[r].documentId,
                                 [processing_status |-> "error", original_text |-> Unset,
                                  simplified_summary |-> Unset, key_points |-> Unset,
                                  legal_terms |-> Unset, warnings |-> Unset])
  /\ runs' = [runs EXCEPT ![r] =
       Throw([@ EXCEPT !.env.secondary = OkOrFail(failed),
                       !.statusWrites = IF failed THEN @ ELSE @ + 1],
             "updateError")]
  /\ UNCHANGED storage

\* SecondaryStep without the secondary update: the failed analysis update
\* is thrown at once
SecondaryStepSkipped(r, failed) ==
  /\ runs[r].pc = "secondary"
  /\ runs' = [runs EXCEPT ![r] = Throw(@, "updateError")]
  /\ UNCHANGED <<documents, storage>>

\* SecondaryStep with a rule the code does not have: the document whose
\* analysis could not be written goes back to processing
SecondaryStepRequeue(r, failed) ==
  /\ runs[r].pc = "secondary"
  /\ documents' = IF failed THEN documents
                  ELSE UpdateRow(runs[r].documentId, [processing_status |-> "processing"])
  /\ runs' = [runs EXCEPT ![r] =
       Throw([@ EXCEPT !.env.secondary = OkOrFail(failed),
                       !.statusWrites = IF failed THEN @ ELSE @ + 1],
             "updateError")]
  /\ UNCHANGED storage

\* index.ts:370-380  the analysis update failed: set the status to error
\* (the result of this update is not looked at) and throw updateError
SecondaryStep(r, failed) ==
  /\ runs[r].pc = "secondary"
  /\ documents' = IF failed THEN documents
                  ELSE UpdateRow(runs[r].documentId, [processing_status |-> "error"])
  /\ runs' = [runs EXCEPT ![r] =
       Throw([@ EXCEPT !.env.secondary = OkOrFail(failed),
                       !.statusWrites = IF failed THEN @ ELSE @ + 1],
             "updateError")]
  /\ UNCHANGED storage

\* CatchBlockBindings had supabase and documentId been declared before the
\* try statement
FunctionScopeBindings ==
  {"serve", "createClient", "corsHeaders", "req", "error", "supabase", "documentId"}

\* the names in scope in the catch block of line 393: the module's
\* imports and constant, the handler's parameter and the catch parameter.
\* What the try block declares with const and let (supabase and documentId
\* among them, lines 24-25) is scoped to the try block.
CatchBlockBindings == {"serve", "createClient", "corsHeaders", "req", "error"}

\* index.ts:397-404  the catch block's status update reads supabase and
\* documentId; reading a name that is not in scope throws a
\* ReferenceError, which the inner try/catch logs
CatchUpdateThrows == ~({"supabase", "documentId"} \subseteq CatchBlockBindings)

\* index.ts:393-416  the catch block: try to set the status to error, then
\* answer 500 with the error's message.  The update is attempted, and
\* can fail, only if reading its operands does not throw.  statusAfter
\* records the status the row has when the response is sent.
CatchStep(r, failed) ==
  /\ runs[r].pc = "catch"
  /\ LET written == ~CatchUpdateThrows /\ ~failed
     IN  /\ documents' = IF written
                           THEN UpdateRow(runs[r].documentId, [processing_status |-> "error"])
                           ELSE documents
         /\ runs' = [runs EXCEPT ![r] =
              [@ EXCEPT !.pc = "returned", !.response = "failure",
                        !.env.catch = IF CatchUpdateThrows THEN "n/a" ELSE OkOrFail(failed),
                        !.statusWrites = IF written THEN @ + 1 ELSE @,
                        !.statusAfter = StatusIn(documents', runs[r].documentId)]]
  /\ UNCHANGED storage

---------------------------------------------------------------------------
(* The reprocess sweep (src/utils/reprocessDocuments.ts:3-44).             *)
(*                                                                         *)
(* sweep  one call of reprocessStuckDocuments: its place, the list it      *)
(*        fetched, its position in the list, the invocation it awaits,     *)
(*        and per position the invocation it made (0 when the call threw)  *)
(*        and what came back                                               *)

IdleSweep ==
  [pc |-> "idle", fetch |-> "n/a", stuckDocs |-> << >>, i |-> 0, run |-> 0,
   invoked |-> << >>, results |-> << >>]

\* the orders in which a query without an order clause can return the rows
\* of the set S
Orderings(S) ==
  {order \in [1..Cardinality(S) -> S] :
     \A i, j \in 1..Cardinality(S) : order[i] = order[j] => i = j}

\* the ids of all rows: a select without the filter on the status
ExistingDocs == {d \in DocIds : documents[d].exists}

\* reprocessDocuments.ts:6-9  the ids of the rows .eq('processing_status',
\* 'processing') selects
StuckDocs ==
  {d \in DocIds : documents[d].exists /\ documents[d].processing_status = "processing"}

\* the for loop with a failure ending it: the sweep stops after an
\* invocation that did not return data
AdvanceUnlessFailed(s) ==
  IF s.i < Len(s.stuckDocs) /\ s.results[Len(s.results)] = "data"
    THEN [s EXCEPT !.pc = "invoke", !.i = @ + 1, !.run = 0]
    ELSE [s EXCEPT !.pc = "done", !.run = 0]

\* reprocessDocuments.ts:24-40  the for loop goes on to the next document
\* of the list, whatever the last invocation gave, and ends after the last
Advance(s) ==
  IF s.i < Len(s.stuckDocs)
    THEN [s EXCEPT !.pc = "invoke", !.i = @ + 1, !.run = 0]
    ELSE [s EXCEPT !.pc = "done", !.run = 0]

\* reprocessDocuments.ts:4-21  fetch the documents in processing; return on
\* an error of the store and on an empty list
SweepFetchStep(fetchError, order) ==
  /\ sweep.pc = "idle"
  /\ order \in Orderings(StuckDocs)
  /\ sweep' =
       IF fetchError THEN [sweep EXCEPT !.pc = "done", !.fetch = "fail"]
       ELSE IF Len(order) = 0 THEN [sweep EXCEPT !.pc = "done", !.fetch = "ok"]
       ELSE [sweep EXCEPT !.pc = "invoke", !.fetch = "ok", !.stuckDocs = order, !.i = 1]
  /\ UNCHANGED <<documents, storage, runs>>

\* reprocessDocuments.ts:25-30, 37-39  invoke process-document for the
\* document at the position; thrown: the call throws before the function
\* is reached, which the catch of line 37 logs
SweepInvokeStep(thrown, keyConfigured) ==
  /\ sweep.pc = "invoke"
  /\ IF thrown
       THEN /\ sweep' = Advance([sweep EXCEPT !.invoked = Append(@, 0),
                                              !.results = Append(@, "thrown")])
            /\ UNCHANGED runs
       ELSE /\ NextRun # 0
            /\ runs' = [runs EXCEPT ![NextRun] =
                          Arrive(sweep.stuckDocs[sweep.i], keyConfigured)]
            /\ sweep' = [sweep EXCEPT !.pc = "await", !.run = NextRun,
                                      !.invoked = Append(@, NextRun)]
  /\ UNCHANGED <<documents, storage>>

\* reprocessDocuments.ts:28-36  the awaited invocation has returned: a
\* response that is not 2xx comes back as error, any other as data; both
\* are logged
SweepAwaitStep ==
  /\ sweep.pc = "await"
  /\ runs[sweep.run].pc = "returned"
  /\ sweep' = Advance([sweep EXCEPT !.results =
                 Append(@, IF runs[sweep.run].response = "success" THEN "data" ELSE "error")])
  /\ UNCHANGED <<documents, storage, runs>>

---------------------------------------------------------------------------
(* The chat (supabase/functions/chat-with-document/index.ts:10-185, and    *)
(* fetchChatHistory of src/pages/DocumentViewer.tsx:80-117).               *)
(*                                                                         *)
(* schema         the name of the column of chat_messages that holds the   *)
(*                session of a message.  The table's definition is not     *)
(*                among the repository's migrations; the function names    *)
(*                the column session_id and the viewer chat_session_id,    *)
(*                so the table has one of the two                          *)
(* revision       the revision of the function that is deployed: the       *)
(*                repository holds two, index.ts, which names the column   *)
(*                session_id, and unnamed/part_001, which names it         *)
(*                chat_session_id; they differ besides in the model they   *)
(*                call and in the words of the missing key's error         *)
(* chat_sessions  the rows of chat_sessions; the id of a row is its place  *)
(* chat_messages  the rows of chat_messages; the id of a row is its place  *)
(*                and created_at, which the store sets, grows with it      *)
(* chats          the invocations of chat-with-document, by arrival order  *)
(* viewer         the state of the document viewer: sessionId and          *)
(*                chatMessages                                             *)

\* index.ts:61, 73, 151  the column index.ts filters on and writes
HandlerSessionColumn == "session_id"

\* DocumentViewer.tsx:101  the column the viewer filters on
ViewerSessionColumn == "chat_session_id"

RevisionIndex == "index.ts"

RevisionPart001 == "part_001"

\* index.ts:61, 73, 151 and part_001:61, 73, 154  the column the deployed
\* function filters on and writes
SessionColumn ==
  IF revision = RevisionIndex THEN HandlerSessionColumn ELSE ViewerSessionColumn

\* index.ts:20-22 and part_001:20-22  the error of the missing key
KeyNotConfigured ==
  IF revision = RevisionIndex THEN "OpenAI API key not configured"
  ELSE "Google API key not configured"

\* index.ts:63  .limit(20)
HistoryLimit == 20

\* index.ts:48  'Chat about '
ChatAbout == << 67, 104, 97, 116, 32, 97, 98, 111, 117, 116, 32 >>

\* a result whose data is null
NoRows == [null |-> TRUE, rows |-> << >>]

NoChatEnv ==
  [key |-> "n/a", lookup |-> "n/a", session |-> "n/a", history |-> "n/a",
   saveUser |-> "n/a", reply |-> "n/a", saveAssistant |-> "n/a"]

\* the call has not arrived yet.  Besides the handler's place and local
\* variables, a call records for the properties: the behaviour of its
\* collaborators (env), the calls that had returned when it arrived
\* (after), the session it created, the rows it inserted as the user
\* message and the assistant message (0 for none), what it sent to the
\* model (input), how often it called the model, and what it answered
IdleChat ==
  [pc |-> "idle", message |-> "", documentId |-> 0, sessionId |-> 0, userId |-> 0,
   document |-> NoDoc, chatSessionId |-> 0, chatHistory |-> NoRows, aiMessage |-> "",
   error |-> "none", response |-> "none", answer |-> [sessionId |-> 0, messageId |-> 0],
   env |-> NoChatEnv, after |-> {}, created |-> 0, userRow |-> 0, assistantRow |-> 0,
   input |-> << >>, llmCalls |-> 0]

\* the viewer as it is mounted.  Besides sessionId, chatMessages and
\* sending, the viewer records for the properties: how the fetch of the
\* history ended, the call its sendMessage awaits, the number of its sends,
\* the transcript before the last send and how that send ended
IdleViewer ==
  [sessionId |-> 0, chatMessages |-> << >>, fetched |-> "n/a", sending |-> FALSE,
   call |-> 0, sends |-> 0, before |-> << >>, outcome |-> "n/a"]

ChatIds == DOMAIN chats

\* the next call to arrive, 0 when the bound is reached
NextChat ==
  IF \A c \in ChatIds : chats[c].pc # "idle" THEN 0
  ELSE Min({c \in ChatIds : chats[c].pc = "idle"})

\* .order('created_at', { ascending: false }) on a list of rows: the
\* newest first
RECURSIVE Descending(_)
Descending(rows) ==
  IF rows = << >> THEN << >>
  ELSE LET first == CHOOSE i \in 1..Len(rows) :
                      \A j \in 1..Len(rows) :
                         \/ rows[i].created_at > rows[j].created_at
                         \/ rows[i].created_at = rows[j].created_at /\ i <= j
       IN  << rows[first] >>
             \o Descending([k \in 1..(Len(rows) - 1) |->
                              IF k < first THEN rows[k] ELSE rows[k + 1]])

\* .order('created_at', { ascending: true }) on a list of rows
RECURSIVE Ascending(_)
Ascending(rows) ==
  IF rows = << >> THEN << >>
  ELSE LET first == CHOOSE i \in 1..Len(rows) :
                      \A j \in 1..Len(rows) :
                         \/ rows[i].created_at < rows[j].created_at
                         \/ rows[i].created_at = rows[j].created_at /\ i <= j
       IN  << rows[first] >>
             \o Ascending([k \in 1..(Len(rows) - 1) |->
                             IF k < first THEN rows[k] ELSE rows[k + 1]])

\* .limit(n) on a list of rows
Limit(rows, n) == SubSeq(rows, 1, IF Len(rows) < n THEN Len(rows) ELSE n)

\* the rows of chat_messages of a session, with their ids
MessagesOf(session) ==
  LET ids == {m \in 1..Len(chat_messages) : chat_messages[m].session = session}
      RECURSIVE Listed(_)
      Listed(S) == IF S = {} THEN << >>
                   ELSE << [id |-> Min(S), role |-> chat_messages[Min(S)].role,
                            content |-> chat_messages[Min(S)].content,
                            created_at |-> chat_messages[Min(S)].created_at] >>
                          \o Listed(S \ {Min(S)})
  IN  Listed(ids)

\* .from('chat_messages').select().eq(column, session): an error when the
\* store fails or the table has no such column
SelectMessages(column, session, failed) ==
  IF failed \/ column # schema THEN NoRows
  ELSE [null |-> FALSE, rows |-> MessagesOf(session)]

\* .from('chat_messages').insert({[column]: session, role, content}): the
\* store rejects the row when it fails, when the table has no such column
\* and when the session is not a row of chat_sessions
InsertAccepted(column, session, failed) ==
  /\ ~failed
  /\ column = schema
  /\ session \in 1..Len(chat_sessions)

\* the table after the insert
InsertMessage(column, session, role, content, failed) ==
  IF InsertAccepted(column, session, failed)
    THEN Append(chat_messages,
                [session |-> session, role |-> role, content |-> content,
                 created_at |-> Len(chat_messages) + 1])
    ELSE chat_messages

\* throw: the catch block of index.ts:172-184 answers 500 with the
\* error's message, and the call's local variables are gone
ChatThrow(chat, message) ==
  [chat EXCEPT !.pc = "returned", !.response = "failure", !.error = message,
               !.document = NoDoc, !.chatHistory = NoRows, !.aiMessage = ""]

\* index.ts:10-27  the request arrives; without the API key the handler
\* throws before it reads the request body
ChatArrive(message, documentId, sessionId, userId, keyConfigured) ==
  LET chat == [IdleChat EXCEPT !.message = message, !.documentId = documentId,
                               !.sessionId = sessionId, !.userId = userId,
                               !.env.key = OkOrFail(~keyConfigured),
                               !.after = {b \in ChatIds : chats[b].pc = "returned"}]
  IN  IF keyConfigured THEN [chat EXCEPT !.pc = "lookup"]
                       ELSE ChatThrow(chat, KeyNotConfigured)

\* any caller invokes the function
ChatInvokeStep(c, message, documentId, sessionId, userId, keyConfigured) ==
  /\ c = NextChat
  /\ chats' = [chats EXCEPT ![c] =
                 ChatArrive(message, documentId, sessionId, userId, keyConfigured)]
  /\ UNCHANGED <<schema, revision, chat_sessions, chat_messages, viewer>>

\* index.ts:29-42  select the document; an error of the store and a
\* missing row both throw 'Document not found'.  A sessionId that is not
\* falsy is taken as the session without a look at chat_sessions.
ChatLookupStep(c, docError) ==
  /\ chats[c].pc = "lookup"
  /\ LET id == chats[c].documentId
         document == IF id \in DocIds THEN documents[id] ELSE NoDoc
         chat == [chats[c] EXCEPT !.env.lookup = OkOrFail(docError \/ ~document.exists)]
     IN  chats' = [chats EXCEPT ![c] =
           IF docError \/ ~document.exists THEN ChatThrow(chat, "Document not found")
           ELSE IF chats[c].sessionId = 0
             THEN [chat EXCEPT !.pc = "session", !.document = document]
           ELSE [chat EXCEPT !.pc = "history", !.document = document,
                             !.chatSessionId = chats[c].sessionId]]
  /\ UNCHANGED <<schema, revision, chat_sessions, chat_messages, viewer>>

\* index.ts:43-54  insert a session for the user and the document and take
\* its id; an error of the store is thrown
ChatSessionStep(c, sessionError) ==
  /\ chats[c].pc = "session"
  /\ IF sessionError
       THEN /\ chats' = [chats EXCEPT ![c] =
                 ChatThrow([@ EXCEPT !.env.session = "fail"], "sessionError")]
            /\ UNCHANGED chat_sessions
       ELSE /\ chat_sessions' = Append(chat_sessions,
                 [user_id |-> chats[c].userId, document_id |-> chats[c].documentId,
                  title |-> ChatAbout \o chats[c].document.title])
            /\ chats' = [chats EXCEPT ![c] =
                 [@ EXCEPT !.pc = "history", !.env.session = "ok",
                           !.chatSessionId = Len(chat_sessions) + 1,
                           !.created = Len(chat_sessions) + 1]]
  /\ UNCHANGED <<schema, revision, chat_messages, viewer>>

\* index.ts:57-67  load the history: the session's messages in ascending
\* created_at order, 20 at most; an error is logged and leaves
\* chatHistory null
ChatHistoryStep(c, historyError) ==
  /\ chats[c].pc = "history"
  /\ LET result == SelectMessages(SessionColumn, chats[c].chatSessionId, historyError)
     IN  chats' = [chats EXCEPT ![c] =
           [@ EXCEPT !.pc = "saveUser",
                     !.env.history = OkOrFail(result.null),
                     !.chatHistory = IF result.null THEN NoRows
                                     ELSE [null |-> FALSE,
                                           rows |-> Limit(Ascending(result.rows), HistoryLimit)]]]
  /\ UNCHANGED <<schema, revision, chat_sessions, chat_messages, viewer>>

\* index.ts:69-76  insert the user message; the result of the insert is
\* not looked at
ChatSaveUserStep(c, failed) ==
  /\ chats[c].pc = "saveUser"
  /\ LET accepted == InsertAccepted(SessionColumn, chats[c].chatSessionId, failed)
     IN  /\ chat_messages' = InsertMessage(SessionColumn, chats[c].chatSessionId,
                                           "user", chats[c].message, failed)
         /\ chats' = [chats EXCEPT ![c] =
              [@ EXCEPT !.pc = "fetch",
                        !.env.saveUser = OkOrFail(~accepted),
                        !.userRow = IF accepted THEN Len(chat_messages) + 1 ELSE 0]]
  /\ UNCHANGED <<schema, revision, chat_sessions, viewer>>

\* index.ts:85  document.original_text.substring(0, 2000)
PreviewCap == 2000

\* index.ts:79-86  what the system message embeds of the document: the
\* title, the four analysis fields or the words standing for a missing
\* one, and the start of the original text
DocumentContext(document) ==
  [title   |-> document.title,
   summary |-> IF IsFalsy(document.simplified_summary) THEN JStr("Not yet processed")
               ELSE document.simplified_summary,
   keyPoints  |-> IF IsFalsy(document.key_points) THEN JStr("None") ELSE document.key_points,
   legalTerms |-> IF IsFalsy(document.legal_terms) THEN JStr("None") ELSE document.legal_terms,
   warnings   |-> IF IsFalsy(document.warnings) THEN JStr("None") ELSE document.warnings,
   preview |-> IF IsFalsy(document.original_text) THEN JStr("Not available")
               ELSE JStr(Substring(document.original_text.v, 0, PreviewCap))]

\* index.ts:88-121  the messages sent to the model: the system message,
\* the loaded history if it is not null, the current user message
ChatInput(chat) ==
  << [role |-> "system", content |-> DocumentContext(chat.document)] >>
    \o [i \in 1..Len(chat.chatHistory.rows) |->
          [role |-> chat.chatHistory.rows[i].role,
           content |-> chat.chatHistory.rows[i].content]]
    \o << [role |-> "user", content |-> chat.message] >>

\* index.ts:78-145  build the messages and call the model.  A reply that
\* is not ok throws; so does a reply without choices (reading
\* choices[0].message of undefined, line 145)
ChatFetchStep(c, reply) ==
  /\ chats[c].pc = "fetch"
  /\ LET chat == [chats[c] EXCEPT !.env.reply = reply.kind, !.llmCalls = @ + 1,
                                  !.input = ChatInput(chats[c])]
     IN  chats' = [chats EXCEPT ![c] =
           IF ~reply.ok THEN ChatThrow(chat, "Failed to get AI response")
           ELSE IF ~reply.hasChoice THEN ChatThrow(chat, "TypeError")
           ELSE [chat EXCEPT !.pc = "saveAssistant", !.aiMessage = reply.content]]
  /\ UNCHANGED <<schema, revision, chat_sessions, chat_messages, viewer>>

\* index.ts:147-170  insert the assistant message and answer with it, with
\* the session and with the id of the inserted row; an error of the
\* insert is logged and leaves the id undefined (0)
ChatSaveAssistantStep(c, failed) ==
  /\ chats[c].pc = "saveAssistant"
  /\ LET accepted == InsertAccepted(SessionColumn, chats[c].chatSessionId, failed)
         row == IF accepted THEN Len(chat_messages) + 1 ELSE 0
     IN  /\ chat_messages' = InsertMessage(SessionColumn, chats[c].chatSessionId,
                                           "assistant", chats[c].aiMessage, failed)
         /\ chats' = [chats EXCEPT ![c] =
              [@ EXCEPT !.pc = "returned", !.response = "success",
                        !.env.saveAssistant = OkOrFail(~accepted),
                        !.assistantRow = row,
                        !.answer = [sessionId |-> chats[c].chatSessionId, messageId |-> row],
                        !.document = NoDoc, !.chatHistory = NoRows]]
  /\ UNCHANGED <<schema, revision, chat_sessions, viewer>>

\* the sessions .eq('document_id', ...).eq('user_id', ...) selects, newest
\* first (DocumentViewer.tsx:84-90)
SessionsOf(documentId, userId) ==
  {s \in 1..Len(chat_sessions) :
     chat_sessions[s].document_id = documentId /\ chat_sessions[s].user_id = userId}

\* DocumentViewer.tsx:80-117  fetchChatHistory: take the newest session of
\* the user for the document, then its messages in ascending created_at
\* order.  An error of either query is thrown, caught and logged; the
\* second leaves the session id set.
ViewerFetchStep(documentId, userId, sessionError, messagesError) ==
  /\ LET sessions == SessionsOf(documentId, userId)
         result == SelectMessages(ViewerSessionColumn, Max(sessions), messagesError)
     IN  viewer' =
           IF userId = 0 THEN [viewer EXCEPT !.fetched = "no user"]
           ELSE IF sessionError THEN [viewer EXCEPT !.fetched = "sessionError"]
           ELSE IF sessions = {} THEN [viewer EXCEPT !.fetched = "no session"]
           ELSE IF result.null
             THEN [viewer EXCEPT !.sessionId = Max(sessions), !.fetched = "messagesError"]
           ELSE [viewer EXCEPT !.sessionId = Max(sessions), !.fetched = "ok",
                               !.chatMessages = Ascending(result.rows)]
  /\ UNCHANGED <<schema, revision, chat_sessions, chat_messages, chats>>

\* DocumentViewer.tsx:128, 151, 158  the ids the viewer gives the messages
\* it makes itself: `temp-${Date.now()}`, `user-${Date.now()}` and
\* `ai-${Date.now()}`, for the n-th send.  They are no ids of rows (which
\* are positive)
TempId(n) == 0 - (3 * n)

LocalUserId(n) == 0 - (3 * n + 1)

LocalAiId(n) == 0 - (3 * n + 2)

\* prev.filter(msg => msg.id !== id)
WithoutId(messages, id) == SelectSeq(messages, LAMBDA msg : msg.id # id)

\* DocumentViewer.tsx:119-141  sendMessage up to the await: nothing is
\* sent while a send is under way or when the message is empty; the
\* message is appended to the transcript under a temporary id and
\* chat-with-document is invoked with the viewer's session, if it has one
ViewerSendStep(c, message, documentId, userId) ==
  /\ ~viewer.sending
  /\ message # ""
  /\ c = NextChat
  /\ viewer' = [viewer EXCEPT
                  !.sending = TRUE, !.call = c, !.sends = @ + 1,
                  !.before = viewer.chatMessages, !.outcome = "n/a",
                  !.chatMessages =
                     Append(@, [id |-> TempId(viewer.sends + 1), role |-> "user",
                                content |-> message, created_at |-> 0])]
  /\ chats' = [chats EXCEPT ![c] =
                 ChatArrive(message, documentId, viewer.sessionId, userId, TRUE)]
  /\ UNCHANGED <<schema, revision, chat_sessions, chat_messages>>

\* a viewer whose catch block only reports the failure
ViewerSettleStepKeeping(lost) ==
  /\ viewer.sending
  /\ chats[viewer.call].pc = "returned"
  /\ viewer' = [viewer EXCEPT !.sending = FALSE, !.outcome = "error"]
  /\ UNCHANGED <<schema, revision, chat_sessions, chat_messages, chats>>

\* DocumentViewer.tsx:141-171  the invocation has come back.  A response
\* that is not 2xx, or none (lost), comes back as error: the message with
\* the temporary id is taken out of the transcript.  Otherwise the
\* session of the answer is kept if the viewer had none, and the message
\* is put back under a new id, followed by the answer under the id of the
\* answer, or a new one when the answer has none
ViewerSettleStep(lost) ==
  /\ viewer.sending
  /\ chats[viewer.call].pc = "returned"
  /\ LET chat == chats[viewer.call]
         n == viewer.sends
         withoutTemp == WithoutId(viewer.chatMessages, TempId(n))
     IN  viewer' =
           IF lost \/ chat.response = "failure"
             THEN [viewer EXCEPT !.sending = FALSE, !.outcome = "error",
                                 !.chatMessages = withoutTemp]
             ELSE [viewer EXCEPT
                     !.sending = FALSE, !.outcome = "ok",
                     !.sessionId = IF chat.answer.sessionId # 0 /\ viewer.sessionId = 0
                                     THEN chat.answer.sessionId ELSE @,
                     !.chatMessages =
                        withoutTemp
                          \o << [id |-> LocalUserId(n), role |-> "user",
                                 content |-> chat.message, created_at |-> 0],
                                [id |-> IF chat.answer.messageId # 0
                                          THEN chat.answer.messageId ELSE LocalAiId(n),
                                 role |-> "assistant", content |-> chat.aiMessage,
                                 created_at |-> 0] >>]
  /\ UNCHANGED <<schema, revision, chat_sessions, chat_messages, chats>>

---------------------------------------------------------------------------
(* The upload page (DocumentUpload.tsx).  uploadedFiles is the list of     *)
(* file items the page shows; uploads are the uploadFile calls, one for    *)
(* each dropped file.  A position of the list is counted from 1 here and   *)
(* from 0 in the source.  What the storage, the documents table and        *)
(* process-document answer to a call is an input of its steps.             *)

\* DocumentUpload.tsx:34-39  the item onDrop makes for a file; it has no
\* document id yet
NewFile(file) == [file |-> file, progress |-> 0, status |-> "uploading", id |-> 0]

\* the call has not started.  Besides its place, its index parameter and
\* the document it inserted, a call records for the properties: the file
\* it was started for, whether its progress interval is running, and the
\* files whose items its updates have changed (hit)
IdleUpload ==
  [pc |-> "idle", file |-> 0, index |-> 0, ticking |-> FALSE, documentId |-> 0, hit |-> {}]

UploadIds == DOMAIN uploads

InitPage(n) ==
  /\ uploadedFiles = << >>
  /\ uploads = [u \in 1..n |-> IdleUpload]

\* setUploadedFiles(prev => { const updated = [...prev];
\*   if (updated[index]) { updated[index].field = value; ... } return updated; })
\* with the assignments given as a record
UpdateAt(files, index, assigned) ==
  IF index \in 1..Len(files)
    THEN [files EXCEPT ![index] =
            [f \in DOMAIN @ |-> IF f \in DOMAIN assigned THEN assigned[f] ELSE @[f]]]
    ELSE files

\* the files a call has changed the items of, after an update of the list
HitBy(u, updated) ==
  IF updated # uploadedFiles
    THEN uploads[u].hit \cup {uploadedFiles[uploads[u].index].file}
    ELSE uploads[u].hit

\* an update of the list by the call u, which then goes on at pc
UpdateBy(u, assigned, pc, ticking, documentId) ==
  LET updated == UpdateAt(uploadedFiles, uploads[u].index, assigned)
  IN  /\ uploadedFiles' = updated
      /\ uploads' = [uploads EXCEPT ![u] =
                       [@ EXCEPT !.pc = pc, !.ticking = ticking,
                                 !.documentId = documentId, !.hit = HitBy(u, updated)]]

\* DocumentUpload.tsx:33-47  onDrop: the items of the accepted files are
\* appended, and uploadFile is started for each with the position its
\* item has then: uploadedFiles.length + index.  The n files are those of
\* the next n calls
DropStep(n) ==
  LET idle == {u \in UploadIds : uploads[u].pc = "idle"}
  IN  /\ n >= 1
      /\ Cardinality(idle) >= n
      /\ LET first == Min(idle)
             dropped == first..(first + n - 1)
         IN  /\ uploadedFiles' = uploadedFiles \o [i \in 1..n |-> NewFile(first + i - 1)]
             /\ uploads' =
                  [u \in UploadIds |->
                     IF u \in dropped
                       THEN [IdleUpload EXCEPT
                               !.pc = "uploading", !.file = u, !.ticking = TRUE,
                               !.index = Len(uploadedFiles) + (u - first) + 1]
                       ELSE uploads[u]]

\* DocumentUpload.tsx:64-73  the progress interval of a call fires: ten
\* more for the item at the index, below 90
TickStep(u) ==
  /\ uploads[u].ticking
  /\ uploads[u].index \in 1..Len(uploadedFiles)
  /\ uploadedFiles[uploads[u].index].progress < 90
  /\ UpdateBy(u, [progress |-> uploadedFiles[uploads[u].index].progress + 10],
              uploads[u].pc, TRUE, uploads[u].documentId)

\* DocumentUpload.tsx:125-135  the catch block of uploadFile
UploadFailed == [status |-> "error", progress |-> 0]

\* DocumentUpload.tsx:75-94  the storage has answered the upload.  An
\* error is thrown with the interval still running; otherwise the
\* interval is cleared and the item at the index is set to processing
UploadedStep(u, uploadError) ==
  /\ uploads[u].pc = "uploading"
  /\ IF uploadError
       THEN UpdateBy(u, UploadFailed, "done", uploads[u].ticking, 0)
       ELSE UpdateBy(u, [progress |-> 100, status |-> "processing"], "inserting", FALSE, 0)

\* DocumentUpload.tsx:96-119  the documents table has answered the
\* insert: the item at the index gets the id of the new document
InsertedStep(u, docError) ==
  /\ uploads[u].pc = "inserting"
  /\ IF docError
       THEN UpdateBy(u, UploadFailed, "done", FALSE, 0)
       ELSE UpdateBy(u, [id |-> u], "processing", FALSE, u)

\* DocumentUpload.tsx:139-180  processWithAI: process-document has
\* answered; the item at the index is set to completed, or to error when
\* the invocation failed or did not answer success
ProcessedStep(u, success) ==
  /\ uploads[u].pc = "processing"
  /\ UpdateBy(u, [status |-> IF success THEN "completed" ELSE "error"],
              "done", FALSE, uploads[u].documentId)

\* DocumentUpload.tsx:192-194, 344-353  removeFile, which the page offers
\* for the items that are not processing: prev.filter((_, i) => i !== index)
RemoveStep(index) ==
  /\ index \in 1..Len(uploadedFiles)
  /\ uploadedFiles[index].status # "processing"
  /\ uploadedFiles' = [i \in 1..(Len(uploadedFiles) - 1) |->
                         IF i < index THEN uploadedFiles[i] ELSE uploadedFiles[i + 1]]
  /\ UNCHANGED uploads

---------------------------------------------------------------------------
(* The initial state.                                                      *)

\* the chat tables are empty, no call has arrived (there is room for n),
\* and chat_messages has one of the session columns given
InitChat(n, columns, revisions) ==
  /\ schema \in columns
  /\ revision \in revisions
  /\ chat_sessions = << >>
  /\ chat_messages = << >>
  /\ chats = [c \in 1..n |-> IdleChat]
  /\ viewer = IdleViewer

Init ==
  /\ InitPipeline(MaxDocs, MaxRuns)
  /\ sweep = IdleSweep
  /\ InitPage(0)
  /\ InitChat(1, {ViewerSessionColumn}, {RevisionPart001})

---------------------------------------------------------------------------
(* The replies of the endpoint.                                            *)

\* a summary of n characters
RECURSIVE SummaryOfLength(_)
SummaryOfLength(n) ==
  IF n <= Len(ReplySummaryStem) THEN SubSeq(ReplySummaryStem, 1, n)
  ELSE ReplySummaryStem \o SummaryOfLength(n - Len(ReplySummaryStem))

\* a JSON object with the four fields of the requested format
AnalysisJson(summary, keyPoints, legalTerms, warnings) ==
  JObj([k \in {"summary", "keyPoints", "legalTerms", "warnings"} |->
          IF k = "summary" THEN summary
          ELSE IF k = "keyPoints" THEN keyPoints
          ELSE IF k = "legalTerms" THEN legalTerms
          ELSE warnings])

GoodSummary == JStr(SummaryOfLength(162))

GoodKeyPoints == JStrings(<< ReplyKeyPoint >>)

GoodLegalTerms == JTerms(<< [term |-> ReplyTerm, explanation |-> ReplyExplanation] >>)

GoodWarnings == JStrings(<< ReplyWarning >>)

GoodJson == AnalysisJson(GoodSummary, GoodKeyPoints, GoodLegalTerms, GoodWarnings)

\* a 200 reply whose text is toks
TextReply(toks) == [ok |-> TRUE, hasCandidate |-> TRUE, hasText |-> TRUE, text |-> toks]

\* ```json\n{...}\n```
ReplyFenced == TextReply(<< TokFence, TokJsonWord, TokWs, TokJson(GoodJson), TokWs, TokFence >>)

\* {...} with empty arrays
ReplyEmptyArrays ==
  TextReply(<< TokJson(AnalysisJson(GoodSummary, JArr(<< >>), JArr(<< >>), JArr(<< >>))) >>)

\* text that is not JSON
ReplyProse == TextReply(<< TokProse >>)

\* a response that is not ok (HTTP 500)
ReplyNotOk == [ok |-> FALSE, hasCandidate |-> FALSE, hasText |-> FALSE, text |-> << >>]

\* the replies of the pipeline model
Replies == << ReplyFenced, ReplyNotOk >>

\* the files of the pipeline model
Files == << [name |-> NameLeasePdf, bytes |-> BytesPdf] >>

\* the values of the clock
Clock == {Timestamp1}

---------------------------------------------------------------------------
(* The pipeline: uploads and invocations, overlapping, with every           *)
(* collaborator free to fail.                                              *)

Upload ==
  \E f \in 1..Len(Files), docError \in BOOLEAN, keyConfigured \in BOOLEAN :
     UploadStep(Files[f], docError, keyConfigured)

Invoke ==
  \E r \in RunIds, id \in 1..(MaxDocs + 1), keyConfigured \in BOOLEAN : InvokeStep(r, id, keyConfigured)

Lookup == \E r \in RunIds, docError \in BOOLEAN : LookupStep(r, docError)

Download == \E r \in RunIds, downloadError \in BOOLEAN : DownloadStep(r, downloadError)

Extract == \E r \in RunIds, failed \in BOOLEAN, now \in Clock : ExtractStep(r, failed, now)

Fetch == \E r \in RunIds, k \in 1..Len(Replies) : FetchStep(r, k, Replies[k])

Update == \E r \in RunIds, updateError \in BOOLEAN : UpdateStep(r, updateError)

Secondary == \E r \in RunIds, failed \in BOOLEAN : SecondaryStep(r, failed)

Catch == \E r \in RunIds, failed \in BOOLEAN : CatchStep(r, failed)

Next ==
  \/ Upload /\ UNCHANGED <<sweepVars, chatVars, pageVars>>
  \/ Invoke /\ UNCHANGED <<sweepVars, chatVars, pageVars>>
  \/ Lookup /\ UNCHANGED <<sweepVars, chatVars, pageVars>>
  \/ Download /\ UNCHANGED <<sweepVars, chatVars, pageVars>>
  \/ Extract /\ UNCHANGED <<sweepVars, chatVars, pageVars>>
  \/ Fetch /\ UNCHANGED <<sweepVars, chatVars, pageVars>>
  \/ Update /\ UNCHANGED <<sweepVars, chatVars, pageVars>>
  \/ Secondary /\ UNCHANGED <<sweepVars, chatVars, pageVars>>
  \/ Catch /\ UNCHANGED <<sweepVars, chatVars, pageVars>>

Spec == Init /\ [][Next]_vars

---------------------------------------------------------------------------
(* One document followed through one run, over many file names, file       *)
(* contents and replies; the database and the storage do not fail.         *)

\* the length of a file longer than the stored original text
LongFileLength == 10050

\* a text file of LongFileLength letters, A to Z over and over
BytesLong == [i \in 1..LongFileLength |-> 65 + (i % 26)]

WideNames ==
  << NameNotesTxt, NameLeasePdf, NameServiceAgreementDocx, NamePrivacyPolicyTxt,
     NameLastWillPdf, NamePowerOfAttorneyPdf, NameReadme >>

WideContents ==
  << BytesScenarioA, BytesLeaseText, BytesEmpty, BytesPdf, BytesPdfCorrupt,
     BytesDocx, BytesLong >>

\* a 200 reply without candidates
ReplyNoCandidate == [ok |-> TRUE, hasCandidate |-> FALSE, hasText |-> FALSE, text |-> << >>]

\* a 200 reply whose first part has no text
ReplyNoText == [ok |-> TRUE, hasCandidate |-> TRUE, hasText |-> FALSE, text |-> << >>]

\* {}
ReplyEmptyObject == TextReply(<< TokJson(JObj(<< >>)) >>)

\* {...} with a summary of 99 characters
ReplyShortSummary ==
  TextReply(<< TokJson(AnalysisJson(JStr(SummaryOfLength(MinSummaryLength - 1)),
                                    GoodKeyPoints, GoodLegalTerms, GoodWarnings)) >>)

\* {...} with a summary of 100 characters
ReplyLeastSummary ==
  TextReply(<< TokJson(AnalysisJson(JStr(SummaryOfLength(MinSummaryLength)),
                                    GoodKeyPoints, GoodLegalTerms, GoodWarnings)) >>)

\* {...} whose lists are a string, a number and null
ReplyNoLists ==
  TextReply(<< TokJson(AnalysisJson(GoodSummary, JStr(ReplyKeyPoint), JNum(3), JNull)) >>)

\* null
ReplyNull == TextReply(<< TokJson(JNull) >>)

\* 42
ReplyNumber == TextReply(<< TokJson(JNum(42)) >>)

\* []
ReplyArray == TextReply(<< TokJson(JArr(<< >>)) >>)

\* prose, then ```json\n{...}\n```
ReplyProseThenFenced ==
  TextReply(<< TokProse, TokWs, TokFence, TokJsonWord, TokWs, TokJson(GoodJson),
               TokWs, TokFence >>)

\* ```json\n{...} with no closing fence
ReplyOpenFence == TextReply(<< TokFence, TokJsonWord, TokWs, TokJson(GoodJson) >>)

\* {...} with white space around
ReplyBare == TextReply(<< TokWs, TokJson(GoodJson), TokWs >>)

WideReplies ==
  << ReplyFenced, ReplyBare, ReplyEmptyArrays, ReplyProse, ReplyNoCandidate,
     ReplyNoText, ReplyEmptyObject, ReplyShortSummary, ReplyLeastSummary,
     ReplyNoLists, ReplyNull, ReplyNumber, ReplyArray, ReplyProseThenFenced,
     ReplyOpenFence >>

WideClock == {Timestamp1, Timestamp2}

UploadWide ==
  /\ NextDocId = 1
  /\ \E n \in 1..Len(WideNames), c \in 1..Len(WideContents) :
        UploadStep([name |-> WideNames[n], bytes |-> WideContents[c]], FALSE, TRUE)

LookupWide == \E r \in RunIds : LookupStep(r, FALSE)

DownloadWide == \E r \in RunIds : DownloadStep(r, FALSE)

ExtractWide == \E r \in RunIds, failed \in BOOLEAN, now \in WideClock : ExtractStep(r, failed, now)

FetchWide == \E r \in RunIds, k \in 1..Len(WideReplies) : FetchStep(r, k, WideReplies[k])

UpdateWide == \E r \in RunIds : UpdateStep(r, FALSE)

CatchWide == \E r \in RunIds : CatchStep(r, FALSE)

NextWide ==
  \/ UploadWide /\ UNCHANGED <<sweepVars, chatVars, pageVars>>
  \/ LookupWide /\ UNCHANGED <<sweepVars, chatVars, pageVars>>
  \/ DownloadWide /\ UNCHANGED <<sweepVars, chatVars, pageVars>>
  \/ ExtractWide /\ UNCHANGED <<sweepVars, chatVars, pageVars>>
  \/ FetchWide /\ UNCHANGED <<sweepVars, chatVars, pageVars>>
  \/ UpdateWide /\ UNCHANGED <<sweepVars, chatVars, pageVars>>
  \/ CatchWide /\ UNCHANGED <<sweepVars, chatVars, pageVars>>

SpecWide == Init /\ [][NextWide]_vars

---------------------------------------------------------------------------
(* The sweep: documents are uploaded, their invocations run, and one call  *)
(* of reprocessStuckDocuments goes through the documents it finds in       *)
(* processing.                                                             *)

\* documents uploaded before the sweep
SweepDocs == 3

InitSweep ==
  /\ InitPipeline(SweepDocs, 2 * SweepDocs)
  /\ sweep = IdleSweep
  /\ InitPage(0)
  /\ InitChat(1, {ViewerSessionColumn}, {RevisionPart001})

\* a short text file
SweepFile == [name |-> NameNotesTxt, bytes |-> BytesScenarioA]

\* uploads come one after the other's invocation has returned, and before
\* the sweep
UploadSweep ==
  /\ sweep.pc = "idle"
  /\ \A r \in RunIds : runs[r].pc \in {"idle", "returned"}
  /\ \E keyConfigured \in BOOLEAN : UploadStep(SweepFile, FALSE, keyConfigured)
  /\ UNCHANGED sweep

SweepFetch ==
  \E fetchError \in BOOLEAN, order \in Orderings(StuckDocs) : SweepFetchStep(fetchError, order)

SweepInvoke == \E thrown \in BOOLEAN : SweepInvokeStep(thrown, TRUE)

ExtractSweep == \E r \in RunIds : ExtractStep(r, FALSE, Timestamp1)

\* the endpoint and the store fail for invocations of the sweep only; an
\* upload's invocation fails, if it does, for want of the API key
FetchSweep ==
  \E r \in RunIds, k \in 1..Len(Replies) :
     /\ ~Replies[k].ok => r = sweep.run
     /\ FetchStep(r, k, Replies[k])

UpdateSweep ==
  \E r \in RunIds, updateError \in BOOLEAN :
     /\ updateError => r = sweep.run
     /\ UpdateStep(r, updateError)

NextSweep ==
  \/ UploadSweep /\ UNCHANGED <<chatVars, pageVars>>
  \/ SweepFetch /\ UNCHANGED <<chatVars, pageVars>>
  \/ SweepInvoke /\ UNCHANGED <<chatVars, pageVars>>
  \/ SweepAwaitStep /\ UNCHANGED <<chatVars, pageVars>>
  \/ LookupWide /\ UNCHANGED <<sweepVars, chatVars, pageVars>>
  \/ DownloadWide /\ UNCHANGED <<sweepVars, chatVars, pageVars>>
  \/ ExtractSweep /\ UNCHANGED <<sweepVars, chatVars, pageVars>>
  \/ FetchSweep /\ UNCHANGED <<sweepVars, chatVars, pageVars>>
  \/ UpdateSweep /\ UNCHANGED <<sweepVars, chatVars, pageVars>>
  \/ Secondary /\ UNCHANGED <<sweepVars, chatVars, pageVars>>
  \/ Catch /\ UNCHANGED <<sweepVars, chatVars, pageVars>>

SpecSweep == InitSweep /\ [][NextSweep]_vars

---------------------------------------------------------------------------
(* The chat: documents are uploaded and processed, then chat calls come    *)
(* one after the other, with every collaborator free to fail, and the      *)
(* viewer loads the history.                                               *)

\* chat-with-document invocations in one behaviour
MaxChats == 2

\* documents uploaded before the chat
ChatDocs == 1

\* an id that is the id of no row
GhostId == 0 - 1

\* the users
Users == {1, 2}

\* the message of the n-th call
ChatMessageOf(n) == IF n = 1 THEN "question 1" ELSE IF n = 2 THEN "question 2" ELSE "question n"

\* the replies of the chat model: an answer, a response that is not ok
\* (HTTP 500), and a response without choices
ChatReplies ==
  { [kind |-> "answer", ok |-> TRUE, hasChoice |-> TRUE, content |-> "answer"],
    [kind |-> "not ok", ok |-> FALSE, hasChoice |-> FALSE, content |-> ""],
    [kind |-> "no choice", ok |-> TRUE, hasChoice |-> FALSE, content |-> ""] }

InitChatSpec ==
  /\ InitPipeline(ChatDocs, ChatDocs)
  /\ sweep = IdleSweep
  /\ InitPage(0)
  /\ InitChat(MaxChats, {HandlerSessionColumn, ViewerSessionColumn},
              {RevisionIndex, RevisionPart001})

NoRunInFlight == \A r \in RunIds : runs[r].pc \in {"idle", "returned"}

NoChatInFlight == \A c \in ChatIds : chats[c].pc \in {"idle", "returned"}

\* uploads come before the chat
UploadChat ==
  /\ chats[1].pc = "idle"
  /\ \E keyConfigured \in BOOLEAN : UploadStep(SweepFile, FALSE, keyConfigured)

\* a call arrives when the documents are at rest and the call before it
\* has returned; the first caller is user 1
ChatInvoke ==
  /\ NoRunInFlight
  /\ NoChatInFlight
  /\ \E c \in ChatIds :
       \E documentId \in DocIds \cup {GhostId},
          sessionId \in {0, GhostId} \cup (1..Len(chat_sessions)),
          userId \in (IF c = 1 THEN {1} ELSE Users) :
          ChatInvokeStep(c, ChatMessageOf(c), documentId, sessionId, userId, TRUE)

ChatLookup == \E c \in ChatIds : ChatLookupStep(c, FALSE)

ChatSession == \E c \in ChatIds, sessionError \in BOOLEAN : ChatSessionStep(c, sessionError)

ChatHistory == \E c \in ChatIds, historyError \in BOOLEAN : ChatHistoryStep(c, historyError)

ChatSaveUser == \E c \in ChatIds, failed \in BOOLEAN : ChatSaveUserStep(c, failed)

ChatFetch == \E c \in ChatIds, reply \in ChatReplies : ChatFetchStep(c, reply)

ChatSaveAssistant == \E c \in ChatIds, failed \in BOOLEAN : ChatSaveAssistantStep(c, failed)

\* user 1 opens the viewer on a document after the calls
ViewerFetch ==
  /\ \A c \in ChatIds : chats[c].pc = "returned"
  /\ \E documentId \in DocIds : ViewerFetchStep(documentId, 1, FALSE, FALSE)

NextChatSpec ==
  \/ UploadChat /\ UNCHANGED <<sweepVars, chatVars, pageVars>>
  \/ LookupWide /\ UNCHANGED <<sweepVars, chatVars, pageVars>>
  \/ DownloadWide /\ UNCHANGED <<sweepVars, chatVars, pageVars>>
  \/ ExtractSweep /\ UNCHANGED <<sweepVars, chatVars, pageVars>>
  \/ FetchWide /\ UNCHANGED <<sweepVars, chatVars, pageVars>>
  \/ UpdateWide /\ UNCHANGED <<sweepVars, chatVars, pageVars>>
  \/ CatchWide /\ UNCHANGED <<sweepVars, chatVars, pageVars>>
  \/ ChatInvoke /\ UNCHANGED <<pipelineVars, sweepVars, pageVars>>
  \/ ChatLookup /\ UNCHANGED <<pipelineVars, sweepVars, pageVars>>
  \/ ChatSession /\ UNCHANGED <<pipelineVars, sweepVars, pageVars>>
  \/ ChatHistory /\ UNCHANGED <<pipelineVars, sweepVars, pageVars>>
  \/ ChatSaveUser /\ UNCHANGED <<pipelineVars, sweepVars, pageVars>>
  \/ ChatFetch /\ UNCHANGED <<pipelineVars, sweepVars, pageVars>>
  \/ ChatSaveAssistant /\ UNCHANGED <<pipelineVars, sweepVars, pageVars>>
  \/ ViewerFetch /\ UNCHANGED <<pipelineVars, sweepVars, pageVars>>

SpecChat == InitChatSpec /\ [][NextChatSpec]_vars

---------------------------------------------------------------------------
(* A long conversation: one user chats about one document in one session,  *)
(* call after call; the model answers, or fails a bounded number of times; *)
(* the store does not fail.                                                *)

\* chat-with-document invocations in one behaviour: the twelfth finds 22
\* messages in the session when the model answered every call before it
HistoryCalls == 12

\* calls of a behaviour in which the model gives no answer
MaxFailedReplies == 1

InitHistory ==
  /\ InitPipeline(1, 1)
  /\ sweep = IdleSweep
  /\ InitPage(0)
  /\ InitChat(HistoryCalls, {HandlerSessionColumn, ViewerSessionColumn},
              {RevisionIndex, RevisionPart001})

UploadHistory == UploadStep(SweepFile, FALSE, FALSE)

\* the first call passes no session, the later ones the session the first
\* created
ChatInvokeHistory ==
  /\ NoRunInFlight
  /\ NoChatInFlight
  /\ documents[1].exists
  /\ \E c \in ChatIds :
        ChatInvokeStep(c, ChatMessageOf(c), 1, Len(chat_sessions), 1, TRUE)

ChatSessionHistory == \E c \in ChatIds : ChatSessionStep(c, FALSE)

ChatHistoryHistory == \E c \in ChatIds : ChatHistoryStep(c, FALSE)

ChatSaveUserHistory == \E c \in ChatIds : ChatSaveUserStep(c, FALSE)

\* calls whose model call did not give an answer
FailedReplies ==
  Cardinality({c \in ChatIds : chats[c].env.reply \notin {"n/a", "answer"}})

ChatFetchHistory ==
  \E c \in ChatIds, reply \in ChatReplies :
    /\ reply.kind = "answer" \/ FailedReplies < MaxFailedReplies
    /\ ChatFetchStep(c, reply)

ChatSaveAssistantHistory == \E c \in ChatIds : ChatSaveAssistantStep(c, FALSE)

NextHistory ==
  \/ UploadHistory /\ UNCHANGED <<sweepVars, chatVars, pageVars>>
  \/ CatchWide /\ UNCHANGED <<sweepVars, chatVars, pageVars>>
  \/ ChatInvokeHistory /\ UNCHANGED <<pipelineVars, sweepVars, pageVars>>
  \/ ChatLookup /\ UNCHANGED <<pipelineVars, sweepVars, pageVars>>
  \/ ChatSessionHistory /\ UNCHANGED <<pipelineVars, sweepVars, pageVars>>
  \/ ChatHistoryHistory /\ UNCHANGED <<pipelineVars, sweepVars, pageVars>>
  \/ ChatSaveUserHistory /\ UNCHANGED <<pipelineVars, sweepVars, pageVars>>
  \/ ChatFetchHistory /\ UNCHANGED <<pipelineVars, sweepVars, pageVars>>
  \/ ChatSaveAssistantHistory /\ UNCHANGED <<pipelineVars, sweepVars, pageVars>>

SpecHistory == InitHistory /\ [][NextHistory]_vars

---------------------------------------------------------------------------
(* The viewer: user 1 opens the viewer on the one document and sends       *)
(* messages, one after the other; every collaborator of the handler is     *)
(* free to fail and the response may be lost on its way back.              *)

\* messages the user sends in one behaviour
MaxSends == 2

InitViewer ==
  /\ InitPipeline(1, 1)
  /\ sweep = IdleSweep
  /\ InitPage(0)
  /\ InitChat(MaxSends, {HandlerSessionColumn, ViewerSessionColumn},
              {RevisionIndex, RevisionPart001})

\* the viewer is opened on a document at rest and loads the history
ViewerMount ==
  /\ NoRunInFlight
  /\ documents[1].exists
  /\ viewer.fetched = "n/a"
  /\ ViewerFetchStep(1, 1, FALSE, FALSE)

ViewerSend ==
  /\ viewer.fetched # "n/a"
  /\ \E c \in ChatIds : ViewerSendStep(c, ChatMessageOf(c), 1, 1)

ViewerSettle == \E lost \in BOOLEAN : ViewerSettleStep(lost)

NextViewer ==
  \/ UploadHistory /\ UNCHANGED <<sweepVars, chatVars, pageVars>>
  \/ CatchWide /\ UNCHANGED <<sweepVars, chatVars, pageVars>>
  \/ ViewerMount /\ UNCHANGED <<pipelineVars, sweepVars, pageVars>>
  \/ ViewerSend /\ UNCHANGED <<pipelineVars, sweepVars, pageVars>>
  \/ ChatLookup /\ UNCHANGED <<pipelineVars, sweepVars, pageVars>>
  \/ ChatSession /\ UNCHANGED <<pipelineVars, sweepVars, pageVars>>
  \/ ChatHistory /\ UNCHANGED <<pipelineVars, sweepVars, pageVars>>
  \/ ChatSaveUser /\ UNCHANGED <<pipelineVars, sweepVars, pageVars>>
  \/ ChatFetch /\ UNCHANGED <<pipelineVars, sweepVars, pageVars>>
  \/ ChatSaveAssistant /\ UNCHANGED <<pipelineVars, sweepVars, pageVars>>
  \/ ViewerSettle /\ UNCHANGED <<pipelineVars, sweepVars, pageVars>>

SpecViewer == InitViewer /\ [][NextViewer]_vars

---------------------------------------------------------------------------
(* The upload page: files are dropped, one or two at a time, their         *)
(* uploads go on concurrently and the user removes items.                  *)

\* files dropped in one behaviour
MaxFiles == 2

InitUpload ==
  /\ InitPipeline(1, 1)
  /\ sweep = IdleSweep
  /\ InitChat(1, {ViewerSessionColumn}, {RevisionPart001})
  /\ InitPage(MaxFiles)

DropFiles == \E n \in 1..2 : DropStep(n)

Tick == \E u \in UploadIds : TickStep(u)

Uploaded == \E u \in UploadIds, uploadError \in BOOLEAN : UploadedStep(u, uploadError)

Inserted == \E u \in UploadIds, docError \in BOOLEAN : InsertedStep(u, docError)

Processed == \E u \in UploadIds, success \in BOOLEAN : ProcessedStep(u, success)

RemoveFile == \E index \in 1..Len(uploadedFiles) : RemoveStep(index)

NextUpload ==
  \/ DropFiles /\ UNCHANGED <<pipelineVars, sweepVars, chatVars>>
  \/ Tick /\ UNCHANGED <<pipelineVars, sweepVars, chatVars>>
  \/ Uploaded /\ UNCHANGED <<pipelineVars, sweepVars, chatVars>>
  \/ Inserted /\ UNCHANGED <<pipelineVars, sweepVars, chatVars>>
  \/ Processed /\ UNCHANGED <<pipelineVars, sweepVars, chatVars>>
  \/ RemoveFile /\ UNCHANGED <<pipelineVars, sweepVars, chatVars>>

SpecUpload == InitUpload /\ [][NextUpload]_vars

---------------------------------------------------------------------------
(* Properties of process-document.                                         *)

Returned(r) == runs[r].pc = "returned"

Completed(r) == Returned(r) /\ runs[r].response = "success"

\* the run holds the text it passes to the analysis
HoldsText(r) == runs[r].pc \in {"fetch", "update", "secondary"} \/ Completed(r)

\* the row and the file of the document of a run that found its document
DocOf(r) == documents[runs[r].documentId]

BytesOf(r) == storage[DocOf(r).file_path].bytes

NonEmptyString(value) == value.t = "string" /\ Len(value.v) > 0

NonEmptyList(value) == value.t = "array" /\ Len(value.v) > 0

\* C1: a run to which the endpoint answered with a response that is not ok
\* has, when it has returned, left its document with the status error.
LlmFailureMarksError ==
  \A r \in RunIds :
     Returned(r) /\ runs[r].error = "Failed to process document with AI"
       => runs[r].statusAfter = "error"

\* C2: a run on an existing document writes the analysis at most once; when
\* it has returned, the status is completed if it wrote the analysis and
\* error if it did not, and is never processing.
RunEndsCompletedOrError ==
  \A r \in RunIds :
     /\ runs[r].analysisWrites <= 1
     /\ Returned(r) /\ runs[r].env.lookup = "ok" =>
          /\ runs[r].analysisWrites = 1 => runs[r].statusAfter = "completed"
          /\ runs[r].analysisWrites = 0 => runs[r].statusAfter = "error"
          /\ runs[r].statusAfter # "processing"

\* C3: in every state, the summary, key points, legal terms and warnings
\* of a document are all unset or all set, and they are set only while its
\* status is completed.
AnalysisOnlyWhileCompleted ==
  \A d \in DocIds :
     documents[d].exists =>
       LET doc == documents[d]
       IN  /\ IsSet(doc.key_points) = IsSet(doc.simplified_summary)
           /\ IsSet(doc.legal_terms) = IsSet(doc.simplified_summary)
           /\ IsSet(doc.warnings) = IsSet(doc.simplified_summary)
           /\ IsSet(doc.simplified_summary) => doc.processing_status = "completed"

\* the extraction of the run threw, or gave a text too short to be used
ExtractionGaveNothing(r) == runs[r].env.extract = "fail" \/ runs[r].placeholder

\* C4: a run whose extraction throws or yields no text goes on: the text
\* it holds contains the original file name, it calls the endpoint, it
\* never sets the status error, and when the endpoint's reply has a
\* candidate and the row is updated the document is completed.
ExtractionFailureStillCompletes ==
  \A r \in RunIds :
     ExtractionGaveNothing(r) =>
       /\ runs[r].pc = "fetch" \/ runs[r].llmCalls = 1
       /\ HoldsText(r) => Includes(runs[r].text, DocOf(r).original_filename)
       /\ runs[r].statusWrites = 0
       /\ Returned(r) =>
            /\ runs[r].statusAfter # "error"
            /\ WideReplies[runs[r].env.reply].hasCandidate =>
                 Completed(r) /\ runs[r].statusAfter = "completed"

\* a run whose extraction threw has completed its document
ExtractionFailureCompleted ==
  \E r \in RunIds :
     /\ runs[r].env.extract = "fail"
     /\ Completed(r)
     /\ runs[r].statusAfter = "completed"
     /\ Includes(DocOf(r).original_text.v, DocOf(r).original_filename)

\* the first OriginalTextCap characters of text
FirstCharacters(text) == SubSeq(text, 1, Min({Len(text), OriginalTextCap}))

\* C5 (as stated): for a document of type txt, the text passed to the
\* analysis, and stored as original_text up to the cap, is the decoded
\* content of the file, unchanged.
TxtTextIsContent ==
  \A r \in RunIds :
     HoldsText(r) /\ DocOf(r).file_type = TypeTxt /\ runs[r].env.extract = "ok" =>
       /\ runs[r].text = BlobText(BytesOf(r))
       /\ Completed(r) => DocOf(r).original_text = JStr(FirstCharacters(BlobText(BytesOf(r))))

\* C5 (amended): for a document of type txt whose file can be read, the
\* text passed to the analysis, and stored as original_text up to the cap,
\* is the decoded content with the control characters removed and the
\* white space at both ends trimmed, if that has at least 50 characters;
\* otherwise it is the placeholder text.
TxtTextIsCleanedContentOrPlaceholder ==
  \A r \in RunIds :
     HoldsText(r) /\ DocOf(r).file_type = TypeTxt /\ runs[r].env.extract = "ok" =>
       LET cleaned == Trim(SelectSeq(BlobText(BytesOf(r)), NotControlChar))
           text == IF Len(cleaned) >= MinTextLength
                     THEN cleaned
                     ELSE PlaceholderText(DocOf(r), runs[r].env.now)
       IN  /\ runs[r].text = text
           /\ Completed(r) => DocOf(r).original_text = JStr(FirstCharacters(text))

\* the 44 characters of Scenario A, uploaded as notes.txt, were replaced
\* by the placeholder
ScenarioAGotPlaceholder ==
  \E r \in RunIds :
     /\ Completed(r)
     /\ DocOf(r).original_filename = NameNotesTxt
     /\ BytesOf(r) = BytesScenarioA
     /\ runs[r].env.extract = "ok"
     /\ runs[r].text # BlobText(BytesOf(r))
     /\ runs[r].text = PlaceholderText(DocOf(r), Timestamp2)

\* C6: the text a run hands to the analysis has at least 50 characters;
\* when the cleaned extracted text is shorter, the text is a placeholder
\* with the original file name, the file type (in upper case) and the file
\* size of the document.
TextForAnalysisIsLongEnough ==
  \A r \in RunIds :
     HoldsText(r) =>
       LET doc == DocOf(r)
           cleaned == CleanText(ExtractText(doc.file_type, BytesOf(r),
                                            runs[r].env.extract = "fail"))
       IN  /\ Len(runs[r].text) >= 50
           /\ runs[r].pc = "fetch" /\ Len(cleaned) < 50 =>
                /\ runs[r].text # cleaned
                /\ Includes(runs[r].text,
                            PlaceholderParts[1] \o doc.original_filename \o PlaceholderParts[2])
                /\ Includes(runs[r].text,
                            PlaceholderParts[3] \o ToUpperCase(doc.file_type) \o PlaceholderParts[4])
                /\ Includes(runs[r].text,
                            PlaceholderParts[4] \o NumberToString(doc.file_size)
                              \o PlaceholderParts[5])

\* a run is about to call the endpoint with the placeholder, its file
\* having given a text that is not empty and shorter than 50 characters
ShortTextGotPlaceholder ==
  \E r \in RunIds :
     /\ runs[r].pc = "fetch"
     /\ runs[r].placeholder
     /\ LET cleaned == CleanText(ExtractText(DocOf(r).file_type, BytesOf(r), FALSE))
        IN  runs[r].env.extract = "ok" /\ Len(cleaned) > 0 /\ Len(cleaned) < 50

\* C7: whatever the body of a successful reply of the endpoint, the
\* analysis a run returns and stores has a summary that is a non-empty
\* string and key points, legal terms and warnings that are non-empty
\* lists.
StoredAnalysisIsPopulated ==
  \A r \in RunIds :
     Completed(r) =>
       /\ NonEmptyString(runs[r].analysisResult.summary)
       /\ NonEmptyList(runs[r].analysisResult.keyPoints)
       /\ NonEmptyList(runs[r].analysisResult.legalTerms)
       /\ NonEmptyList(runs[r].analysisResult.warnings)
       /\ NonEmptyString(DocOf(r).simplified_summary)
       /\ NonEmptyList(DocOf(r).key_points)
       /\ NonEmptyList(DocOf(r).legal_terms)
       /\ NonEmptyList(DocOf(r).warnings)

\* C8: the original_text a completing run writes is the first 10,000
\* characters of the text it passed to the analysis: min(len(text), 10000)
\* characters, exactly 10,000 when the text is longer.
OriginalTextIsFirst10000 ==
  \A r \in RunIds :
     Completed(r) =>
       LET text == runs[r].text
           stored == DocOf(r).original_text
       IN  /\ stored.t = "string"
           /\ Len(stored.v) = Min({Len(text), OriginalTextCap})
           /\ \A i \in 1..Len(stored.v) : stored.v[i] = text[i]
           /\ Len(text) > OriginalTextCap => Len(stored.v) = OriginalTextCap

\* a run has completed a document whose text is longer than 10,000
\* characters, and stored 10,000 of them
LongTextWasCut ==
  \E r \in RunIds :
     /\ Completed(r)
     /\ Len(runs[r].text) > OriginalTextCap
     /\ Len(DocOf(r).original_text.v) = OriginalTextCap

\* r2 arrived after r1 had returned, for the same document, which was
\* there when r1 returned (it was not uploaded in between), and every
\* other run for that document had returned before r1 arrived or arrived
\* after r2 had returned
InSequence(r1, r2) ==
  /\ Returned(r1)
  /\ Returned(r2)
  /\ runs[r1].statusAfter # "absent"
  /\ r1 \in runs[r2].after
  /\ runs[r1].documentId = runs[r2].documentId
  /\ \A r3 \in RunIds \ {r1, r2} :
        runs[r3].pc # "idle" /\ runs[r3].documentId = runs[r1].documentId
          => r3 \in runs[r1].after \/ r2 \in runs[r3].after

\* C9: of two runs in sequence for the same document, whose collaborators
\* (configuration, database, storage, extraction, clock and endpoint)
\* behave the same, the second leaves the status the first left.
SequentialRunsAgree ==
  \A r1, r2 \in RunIds :
     InSequence(r1, r2) /\ runs[r1].env = runs[r2].env
       => runs[r2].statusAfter = runs[r1].statusAfter

\* two runs in sequence, both writing the analysis, left the document
\* completed both times
TwoRunsCompletedInSequence ==
  \E r1, r2 \in RunIds :
     /\ InSequence(r1, r2)
     /\ runs[r1].env = runs[r2].env
     /\ Completed(r1)
     /\ Completed(r2)
     /\ runs[r1].statusAfter = "completed"

\* C10: a run whose lookup finds no row answers with the failure
\* 'Document not found'; it downloads nothing, does not call the endpoint
\* and writes to no row.
NotFoundChangesNothing ==
  \A r \in RunIds :
     /\ runs[r].pc \notin {"idle", "lookup"} /\ runs[r].env.lookup = "fail"
          => runs[r].error = "Document not found"
     /\ runs[r].error = "Document not found" =>
          /\ runs[r].downloads = 0
          /\ runs[r].llmCalls = 0
          /\ runs[r].analysisWrites = 0
          /\ runs[r].statusWrites = 0
          /\ Returned(r) => runs[r].response = "failure"

\* a run for an id that no row has returned 'Document not found' while
\* another document is being processed
UnknownIdReturnedNotFound ==
  \E r \in RunIds :
     /\ Returned(r)
     /\ runs[r].documentId \notin DocIds
     /\ runs[r].error = "Document not found"
     /\ runs[r].response = "failure"
     /\ \E d \in DocIds : documents[d].exists /\ documents[d].processing_status = "processing"

---------------------------------------------------------------------------
(* Properties of the reprocess sweep.                                      *)

\* every other invocation for the document of r had returned when r
\* arrived, or arrived after r had returned
RanAlone(r) ==
  \A r2 \in RunIds \ {r} :
     runs[r2].pc # "idle" /\ runs[r2].documentId = runs[r].documentId
       => r2 \in runs[r].after \/ r \in runs[r2].after

\* the sweep has gone through its list
SweepDone == sweep.pc = "done" /\ sweep.fetch = "ok"

\* C11: a sweep ends only when it has invoked process-document, or tried
\* to, for every document of its list: an invocation that came back with an
\* error, or a call that threw, is followed by the invocation for the next
\* document.  Each document whose invocation by the sweep succeeded (and
\* ran alone) is completed when the sweep ends.
SweepGoesOnAfterFailure ==
  /\ Len(sweep.invoked) \in {sweep.i - 1, sweep.i}
  /\ \A p \in 1..Len(sweep.results) :
       p < Len(sweep.stuckDocs) /\ sweep.results[p] # "data"
          => Len(sweep.invoked) > p \/ sweep.pc = "invoke"
  /\ SweepDone =>
       /\ Len(sweep.invoked) = Len(sweep.stuckDocs)
       /\ Len(sweep.results) = Len(sweep.stuckDocs)
       /\ \A p \in 1..Len(sweep.stuckDocs) :
            LET r == sweep.invoked[p]
            IN  /\ r # 0 => runs[r].documentId = sweep.stuckDocs[p]
                /\ sweep.results[p] = "data" <=> r # 0 /\ Completed(r)
                /\ sweep.results[p] = "data" /\ RanAlone(r)
                     => documents[sweep.stuckDocs[p]].processing_status = "completed"

\* three documents were swept; the invocation for the first or the second
\* failed, the two others succeeded and their documents are completed
SweepPassedAFailure ==
  /\ SweepDone
  /\ Len(sweep.stuckDocs) = 3
  /\ \E p \in 1..2 :
       /\ sweep.results[p] \in {"error", "thrown"}
       /\ \A q \in 1..3 \ {p} :
            /\ sweep.results[q] = "data"
            /\ documents[sweep.stuckDocs[q]].processing_status = "completed"


\* the documents of the sweep's list
Listed == {sweep.stuckDocs[p] : p \in 1..Len(sweep.stuckDocs)}

\* the invocations the sweep has made
SweepRuns == {sweep.invoked[p] : p \in 1..Len(sweep.invoked)} \ {0}

\* the sweep has invoked process-document for documents of its list only,
\* once for each position, each invocation after the ones before it had
\* returned, and at most one of them is in flight
InTurn ==
  /\ Len(sweep.invoked) <= Len(sweep.stuckDocs)
  /\ \A p \in 1..Len(sweep.invoked) :
       sweep.invoked[p] # 0 =>
         /\ runs[sweep.invoked[p]].pc # "idle"
         /\ runs[sweep.invoked[p]].documentId = sweep.stuckDocs[p]
         /\ \A q \in 1..(p - 1) :
              sweep.invoked[q] # 0 =>
                /\ sweep.invoked[q] # sweep.invoked[p]
                /\ sweep.invoked[q] \in runs[sweep.invoked[p]].after
  /\ Cardinality({r \in SweepRuns : ~Returned(r)}) <= 1
  /\ SweepDone => Len(sweep.invoked) = Len(sweep.stuckDocs)

\* C24: the list a sweep fetches holds each document that is processing
\* at that moment once and no other document; the sweep invokes
\* process-document for the documents of its list only, once for each
\* position, and an invocation arrives only after the sweep's invocations
\* before it have returned, so that at most one is in flight.
SweepInvokesOnceInTurn ==
  [][ /\ sweep.pc = "idle" /\ sweep'.pc # "idle" /\ sweep'.fetch = "ok" =>
           /\ \A d \in DocIds :
                (\E p \in 1..Len(sweep'.stuckDocs) : sweep'.stuckDocs[p] = d)
                  <=> documents[d].exists /\ documents[d].processing_status = "processing"
           /\ \A p, q \in 1..Len(sweep'.stuckDocs) :
                sweep'.stuckDocs[p] = sweep'.stuckDocs[q] => p = q
      /\ InTurn'
    ]_vars

\* a sweep has gone through a list of two documents, invoking
\* process-document for each, while a third document, completed before
\* the sweep, was not invoked again
SweptTwoOfThree ==
  /\ SweepDone
  /\ Len(sweep.stuckDocs) = 2
  /\ Cardinality(SweepRuns) = 2
  /\ \E d \in DocIds \ Listed :
       /\ documents[d].exists
       /\ documents[d].processing_status = "completed"
       /\ \A r \in SweepRuns : runs[r].documentId # d

---------------------------------------------------------------------------
(* Properties of chat-with-document and of the viewer's history.           *)

ChatReturned(c) == chats[c].pc = "returned"

ChatSucceeded(c) == ChatReturned(c) /\ chats[c].response = "success"

\* the row is a message of the session with the role and the content
IsMessage(row, session, role, content) ==
  /\ row \in 1..Len(chat_messages)
  /\ chat_messages[row].session = session
  /\ chat_messages[row].role = role
  /\ chat_messages[row].content = content

\* the call appended its user message and then its assistant message to
\* the session
Appended(c, session) ==
  /\ IsMessage(chats[c].userRow, session, "user", chats[c].message)
  /\ IsMessage(chats[c].assistantRow, session, "assistant", chats[c].aiMessage)
  /\ chats[c].userRow < chats[c].assistantRow

\* the call passed the session that an earlier call without a session
\* created and answered
ReusesSessionOf(c, b) ==
  /\ b \in chats[c].after
  /\ ChatSucceeded(b)
  /\ chats[b].sessionId = 0
  /\ chats[c].sessionId # 0
  /\ chats[c].sessionId = chats[b].answer.sessionId

\* C12: a call without a sessionId that succeeds has created one session,
\* for its user and its document, and answers with that session's id; a
\* later call that passes this id and succeeds has created no session and
\* has appended its user message and its assistant message to that
\* session; every session was created by one call.
SessionCreatedOnceAndReused ==
  /\ \A c \in ChatIds :
       ChatSucceeded(c) /\ chats[c].sessionId = 0 =>
         /\ chats[c].created \in 1..Len(chat_sessions)
         /\ chats[c].answer.sessionId = chats[c].created
         /\ chat_sessions[chats[c].created].user_id = chats[c].userId
         /\ chat_sessions[chats[c].created].document_id = chats[c].documentId
  /\ Len(chat_sessions) = Cardinality({c \in ChatIds : chats[c].created # 0})
  /\ \A c, b \in ChatIds :
       ChatSucceeded(c) /\ ReusesSessionOf(c, b) =>
         /\ chats[c].created = 0
         /\ chats[c].answer.sessionId = chats[c].sessionId
         /\ Appended(c, chats[c].sessionId)

\* the last n of the rows
MostRecent(rows, n) ==
  SubSeq(rows, IF Len(rows) < n THEN 1 ELSE Len(rows) - n + 1, Len(rows))

\* C13: the history a call has loaded is the most recent 20 messages of
\* its session, in ascending created_at order.
HistoryIsMostRecent ==
  \A c \in ChatIds :
     chats[c].pc = "saveUser" /\ ~chats[c].chatHistory.null =>
       chats[c].chatHistory.rows =
         MostRecent(Ascending(MessagesOf(chats[c].chatSessionId)), HistoryLimit)

\* C14: a call that is about to call the model, or has called it, has
\* persisted its user message in its session; when the model call failed,
\* the call has answered with a failure, its user message is still in the
\* session, and it has persisted no assistant message.
UserMessageSavedBeforeModel ==
  \A c \in ChatIds :
     /\ chats[c].pc = "fetch" \/ chats[c].llmCalls > 0 =>
          IsMessage(chats[c].userRow, chats[c].chatSessionId, "user", chats[c].message)
     /\ ChatReturned(c) /\ chats[c].env.reply \notin {"n/a", "answer"} =>
          /\ chats[c].response = "failure"
          /\ chats[c].assistantRow = 0

\* the sessionId of the call was no row of chat_sessions when the call
\* arrived (rows are never deleted, ids are never reused)
UnknownSession(c) ==
  chats[c].sessionId # 0 /\ chats[c].sessionId \notin 1..Len(chat_sessions)

UnknownDocument(c) ==
  \/ chats[c].documentId \notin DocIds
  \/ ~documents[chats[c].documentId].exists

\* the call has written no message and no session
WroteNothing(c) ==
  chats[c].userRow = 0 /\ chats[c].assistantRow = 0 /\ chats[c].created = 0

\* C15: a call that has returned and whose sessionId or documentId did not
\* resolve has answered with a failure and has written no message and no
\* session.
UnresolvedIdFails ==
  \A c \in ChatIds :
     ChatReturned(c) /\ chats[c].env.key = "ok"
       /\ (UnknownSession(c) \/ UnknownDocument(c)) =>
          chats[c].response = "failure" /\ WroteNothing(c)

\* the same for the document alone
UnknownDocumentFails ==
  \A c \in ChatIds :
     ChatReturned(c) /\ chats[c].env.key = "ok" /\ UnknownDocument(c) =>
       chats[c].response = "failure" /\ WroteNothing(c)

\* the user message of call b is in the session
SavedIn(b, session) ==
  /\ chats[b].userRow # 0
  /\ chat_messages[chats[b].userRow].session = session

\* the rows are the messages of the session, each with its role and
\* content, in ascending created_at order
IsTranscriptOf(rows, session) == rows = Ascending(MessagesOf(session))

\* C16: the history a call has loaded from a session, and the messages
\* the viewer has fetched for a session, hold every user message that an
\* earlier call persisted in that session, with its role and content, in
\* ascending created_at order.
SavedMessageIsLoaded ==
  /\ \A c, b \in ChatIds :
       /\ chats[c].pc = "saveUser" /\ chats[c].env.history = "ok"
       /\ b \in chats[c].after /\ SavedIn(b, chats[c].chatSessionId)
       => IsTranscriptOf(chats[c].chatHistory.rows, chats[c].chatSessionId)
  /\ \A b \in ChatIds :
       /\ viewer.fetched \in {"ok", "messagesError"}
       /\ SavedIn(b, viewer.sessionId)
       => IsTranscriptOf(viewer.chatMessages, viewer.sessionId)

\* the viewer shows a conversation
ViewerShowsMessages == viewer.fetched = "ok" /\ Len(viewer.chatMessages) >= 2

\* input is what a call in the state chat (about to call the model) sends:
\* the system message with the document, then the history the call loaded,
\* which is stored messages of its session with their roles and contents,
\* older before newer, none of them the call's own message, then the
\* call's message
InputInOrder(input, chat) ==
  LET h == chat.chatHistory.rows
  IN  /\ Len(input) = Len(h) + 2
      /\ input[1] = [role |-> "system", content |-> DocumentContext(chat.document)]
      /\ \A i \in 1..Len(h) :
           /\ h[i].id \in 1..Len(chat_messages)
           /\ h[i].id # chat.userRow
           /\ chat_messages[h[i].id].session = chat.chatSessionId
           /\ input[i + 1] = [role |-> chat_messages[h[i].id].role,
                              content |-> chat_messages[h[i].id].content]
      /\ \A i, j \in 1..Len(h) :
           i < j => chat_messages[h[i].id].created_at < chat_messages[h[j].id].created_at
      /\ input[Len(input)] = [role |-> "user", content |-> chat.message]
      /\ \A i \in 1..(Len(input) - 1) :
           input[i].role = "user" /\ input[i].content = chat.message
             => \E b \in ChatIds : chats[b].userRow = h[i - 1].id /\ chats[b].userRow # 0

\* C25: what a call sends to the model is the system message, then the
\* loaded history in ascending created_at order with the stored roles,
\* then the call's message, last and once: no element before it is the
\* call's own message.
ModelInputInOrder ==
  [][ \A c \in ChatIds :
         chats[c].pc = "fetch" /\ chats'[c].pc # "fetch"
           => InputInOrder(chats'[c].input, chats[c])
    ]_vars

\* a call has sent the model a history of ten messages or more, of both
\* roles, followed by its own message
SentLongHistory ==
  \E c \in ChatIds :
     /\ chats[c].pc = "saveAssistant"
     /\ Len(chats[c].input) >= 12
     /\ chats[c].input[2].role = "user" /\ chats[c].input[3].role = "assistant"
     /\ chats[c].input[Len(chats[c].input)] = [role |-> "user", content |-> chats[c].message]

\* C26: a call that has answered success has persisted its reply as an
\* assistant message of the session it answers with, and the messageId it
\* answers with is the id of that message.
ReplyIsPersisted ==
  \A c \in ChatIds :
     ChatSucceeded(c) =>
       /\ chats[c].answer.messageId # 0
       /\ chats[c].answer.messageId = chats[c].assistantRow
       /\ IsMessage(chats[c].answer.messageId, chats[c].answer.sessionId,
                    "assistant", chats[c].aiMessage)

\* the transcript as the user reads it: roles and contents, in order
Shown(messages) == [i \in 1..Len(messages) |-> << messages[i].role, messages[i].content >>]

\* the session of the viewer: the one it holds, or else the one its last
\* call worked in
SessionInView ==
  IF viewer.sessionId # 0 THEN viewer.sessionId ELSE chats[viewer.call].chatSessionId

\* C27 as stated: once a send has settled, the visible transcript is the
\* messages persisted for the session; a message taken out of view is not
\* left persisted.
TranscriptEqualsPersisted ==
  viewer.sends > 0 /\ ~viewer.sending
  => Shown(viewer.chatMessages) = Shown(Ascending(MessagesOf(SessionInView)))

\* C27: when the chat invocation of a send fails (the handler answers a
\* failure, or the response is lost), the optimistic user message is
\* removed and the transcript is the one before the send; when it
\* succeeds, the transcript is the one before the send followed by the
\* user message and the reply.  (The transcript need not be the persisted
\* messages.)
SendSettlesTranscript ==
  [][ viewer.sending /\ ~viewer'.sending
      => LET chat == chats[viewer.call]
         IN  /\ chat.response = "failure" => viewer'.outcome = "error"
             /\ viewer'.outcome = "error" => viewer'.chatMessages = viewer.before
             /\ viewer'.outcome # "error"
                  => /\ chat.response = "success"
                     /\ Shown(viewer'.chatMessages)
                          = Shown(viewer.before)
                              \o << << "user", chat.message >>,
                                    << "assistant", chat.aiMessage >> >> ]_vars

\* the second send failed after its message was persisted, and the
\* transcript is back to the first exchange
RolledBackButPersisted ==
  /\ viewer.sends = 2 /\ ~viewer.sending /\ viewer.outcome = "error"
  /\ chats[2].userRow # 0
  /\ Len(viewer.before) = 2
  /\ viewer.chatMessages = viewer.before


\* the call that inserted the row m
InsertedBy(c, m) == chats[c].userRow = m \/ chats[c].assistantRow = m

\* C29 as stated: every persisted assistant message was inserted by a
\* call whose user message is persisted before it in the same session.
AssistantFollowsUserMessage ==
  \A m \in 1..Len(chat_messages) :
    chat_messages[m].role = "assistant"
    => \E c \in ChatIds :
         /\ chats[c].assistantRow = m
         /\ chats[c].userRow \in 1..(m - 1)
         /\ chat_messages[chats[c].userRow].session = chat_messages[m].session
         /\ chat_messages[chats[c].userRow].role = "user"

\* the session the call works in is the session of the call's user and
\* document
OwnsSession(c) ==
  /\ chat_sessions[chats[c].chatSessionId].user_id = chats[c].userId
  /\ chat_sessions[chats[c].chatSessionId].document_id = chats[c].documentId

\* C30 as stated: every stored message was inserted by a call whose
\* documentId and userId are those of the message's session, and a call
\* that works in the session of another user or document loads none of its
\* messages into the input of the model.
SessionOnlyForItsOwner ==
  /\ \A m \in 1..Len(chat_messages), c \in ChatIds :
       InsertedBy(c, m)
       => /\ chat_sessions[chat_messages[m].session].user_id = chats[c].userId
          /\ chat_sessions[chat_messages[m].session].document_id = chats[c].documentId
  /\ \A c \in ChatIds :
       chats[c].chatSessionId \in 1..Len(chat_sessions) /\ ~OwnsSession(c)
       => chats[c].chatHistory.rows = << >>
---------------------------------------------------------------------------
(* Properties of the status of a document under overlapping runs.          *)

\* the step is the successful analysis update of run r
WritesAnalysis(r) == runs'[r].analysisWrites = runs[r].analysisWrites + 1

\* the step is a successful update of run r that sets the status to error
WritesError(r) == runs'[r].statusWrites = runs[r].statusWrites + 1

\* the runs are on the same document and neither arrived after the other
\* had returned
Overlap(r, q) ==
  /\ r # q
  /\ runs[r].pc # "idle" /\ runs[q].pc # "idle"
  /\ runs[r].documentId = runs[q].documentId
  /\ r \notin runs[q].after /\ q \notin runs[r].after

\* C17: a write of the status by a run lands whatever the status was and
\* whichever run wrote it: after the analysis update of a run the status
\* of its document is completed, after a run's update to error it is
\* error, and the status of an existing document changes in no other step.
LastStatusWriteWins ==
  [][ /\ \A r \in RunIds :
           /\ WritesAnalysis(r) =>
                documents'[runs[r].documentId].processing_status = "completed"
           /\ WritesError(r) =>
                documents'[runs[r].documentId].processing_status = "error"
      /\ \A d \in DocIds :
           documents[d].exists
             /\ documents'[d].processing_status # documents[d].processing_status
           => \E r \in RunIds :
                runs[r].documentId = d /\ (WritesAnalysis(r) \/ WritesError(r))
    ]_vars

\* two overlapping runs have returned: one completed the document, the
\* other failed to write its analysis and set the status to error; the
\* document is in error with the analysis stored
CompletedOverwrittenByError ==
  \E r, q \in RunIds :
     /\ Overlap(r, q)
     /\ Returned(r) /\ Returned(q)
     /\ runs[r].analysisWrites = 1
     /\ runs[q].analysisWrites = 0 /\ runs[q].statusWrites = 1
     /\ DocOf(r).processing_status = "error"
     /\ IsSet(DocOf(r).simplified_summary)
     /\ IsSet(DocOf(r).original_text)

AnalysisColumns ==
  {"original_text", "simplified_summary", "key_points", "legal_terms", "warnings"}

\* the analysis columns of a row
AnalysisColumnsOf(row) == [c \in AnalysisColumns |-> row[c]]

\* C18: the analysis columns and original_text of an existing document
\* change only in a step that is a run's analysis update, and that step
\* leaves the row with this run's analysis, this run's text and the status
\* completed, all at once; a run that has written its analysis writes no
\* other status.
AnalysisWrittenWithCompleted ==
  [][ /\ \A d \in DocIds :
           documents[d].exists /\ AnalysisColumnsOf(documents'[d]) # AnalysisColumnsOf(documents[d])
             => \E r \in RunIds : runs[r].documentId = d /\ WritesAnalysis(r)
      /\ \A r \in RunIds :
           /\ WritesAnalysis(r) =>
                /\ documents'[runs[r].documentId].processing_status = "completed"
                /\ \A c \in AnalysisColumns :
                     /\ c \in DOMAIN AnalysisUpdate(runs[r].text, runs[r].analysisResult)
                     /\ IsSet(documents'[runs[r].documentId][c])
                     /\ documents'[runs[r].documentId][c] =
                          AnalysisUpdate(runs[r].text, runs[r].analysisResult)[c]
           /\ WritesError(r) => runs[r].analysisWrites = 0
    ]_vars

\* a second run has completed a document that a first run had completed:
\* the row holds the status completed and the analysis of the second
RewrittenByLaterRun ==
  \E r, q \in RunIds :
     /\ r # q /\ Completed(r) /\ Completed(q)
     /\ runs[r].documentId = runs[q].documentId
     /\ r \in runs[q].after
     /\ DocOf(q).processing_status = "completed"
     /\ AnalysisColumnsOf(DocOf(q)) = AnalysisColumnsOf(AnalysisUpdate(runs[q].text, runs[q].analysisResult))

Settled(status) == status \in {"completed", "error"}

\* a run is in flight for the document
InFlight(d) == \E r \in RunIds : runs[r].documentId = d /\ runs[r].pc \notin {"idle", "returned"}

\* C19 as stated: a document that is completed or in error does not change
\* its status again unless process-document is invoked again; a run that
\* was invoked before the document was completed or in error does not
\* change the status the document has reached since.
SettledStatusStays ==
  [][ \A r \in RunIds :
         /\ WritesAnalysis(r) \/ WritesError(r)
         /\ ~runs[r].arrivedSettled
         /\ Settled(StatusIn(documents, runs[r].documentId))
         => StatusIn(documents', runs[r].documentId) = StatusIn(documents, runs[r].documentId)
    ]_vars

\* C19: a document is created with the status processing; a run writes
\* the status at most once, and a status that changes changes to completed
\* or to error, never to processing; the status of a document that is
\* completed or in error does not change while no run is in flight for it.
StatusLifecycle ==
  [][ /\ \A d \in DocIds :
           /\ ~documents[d].exists /\ documents'[d].exists
                => documents'[d].processing_status = "processing"
           /\ documents[d].exists
                /\ documents'[d].processing_status # documents[d].processing_status
                => /\ Settled(documents'[d].processing_status)
                   /\ InFlight(d)
      /\ \A r \in RunIds : runs'[r].analysisWrites + runs'[r].statusWrites <= 1
    ]_vars

\* two overlapping runs have returned: one set the status to error, the
\* other wrote its analysis after that; the document is completed
ErrorOverwrittenByCompleted ==
  \E r, q \in RunIds :
     /\ Overlap(r, q)
     /\ Returned(r) /\ Returned(q)
     /\ runs[r].analysisWrites = 1
     /\ runs[q].statusWrites = 1
     /\ ~runs[r].arrivedSettled /\ ~runs[q].arrivedSettled
     /\ DocOf(r).processing_status = "completed"

\* both the analysis update and the secondary update of the run failed
BothUpdatesFailed(r) == runs[r].env.update = "fail" /\ runs[r].env.secondary = "fail"

\* no other run has written to the document of r
OnlyWriter(r) ==
  \A q \in RunIds \ {r} :
     runs[q].documentId = runs[r].documentId =>
       runs[q].analysisWrites = 0 /\ runs[q].statusWrites = 0

\* C20: a run whose analysis update failed goes on to the secondary
\* update; when that succeeds the run has written the status error once,
\* and when it fails the run has written nothing; either way the run
\* answers with a failure.  After both failed, a document that no other
\* run has written to is still processing, with original_text and the
\* analysis columns unset.
SecondaryAttemptAfterFailedUpdate ==
  \A r \in RunIds :
     runs[r].env.update = "fail" =>
       /\ runs[r].pc \in {"secondary", "catch", "returned"}
       /\ runs[r].pc # "secondary" =>
            /\ runs[r].env.secondary \in {"ok", "fail"}
            /\ runs[r].analysisWrites = 0
            /\ runs[r].statusWrites = (IF runs[r].env.secondary = "ok" THEN 1 ELSE 0)
       /\ Returned(r) => runs[r].response = "failure"
       /\ BothUpdatesFailed(r) /\ OnlyWriter(r) =>
            /\ DocOf(r).processing_status = "processing"
            /\ \A c \in AnalysisColumns : ~IsSet(DocOf(r)[c])

\* a run has answered with a failure after both of its updates failed, and
\* its document is stuck in processing
StuckAfterBothUpdatesFailed ==
  \E r \in RunIds :
     /\ Returned(r) /\ BothUpdatesFailed(r) /\ OnlyWriter(r)
     /\ runs[r].response = "failure"
     /\ runs[r].statusAfter = "processing"
     /\ DocOf(r).processing_status = "processing"

---------------------------------------------------------------------------
(* Properties of the failure paths of process-document.                    *)

\* the download of the run failed
DownloadFailed(r) == runs[r].error = "Failed to download document"

\* C21: a run whose download failed has extracted no text, has not called
\* the endpoint and has not written the analysis; when it has returned,
\* it has answered with a failure and has left its document with the
\* status error.
DownloadFailureMarksError ==
  \A r \in RunIds :
     DownloadFailed(r) =>
       /\ runs[r].env.extract = "n/a"
       /\ runs[r].llmCalls = 0
       /\ runs[r].analysisWrites = 0
       /\ Returned(r) => runs[r].response = "failure" /\ runs[r].statusAfter = "error"

\* the same without the status
DownloadFailureAborts ==
  \A r \in RunIds :
     DownloadFailed(r) =>
       /\ runs[r].env.extract = "n/a"
       /\ runs[r].llmCalls = 0
       /\ runs[r].analysisWrites = 0
       /\ Returned(r) => runs[r].response = "failure"

\* the row but for its status
FrameOf(row) == [c \in DOMAIN row \ {"processing_status"} |-> row[c]]

\* C22: a step of a run that is not the run's successful analysis update
\* (the steps of a run that ends on document not found, on a failed
\* download, on a response of the endpoint that is not ok or on a failed
\* store write are all such) leaves every column of every existing row as
\* it was, but for processing_status.
FailingRunKeepsAnalysis ==
  [][ \A r \in RunIds :
         runs'[r] # runs[r] /\ ~WritesAnalysis(r) =>
           \A d \in DocIds :
              documents[d].exists =>
                documents'[d].exists /\ FrameOf(documents'[d]) = FrameOf(documents[d])
    ]_vars

\* a run completed the document; a later run for it failed to write its
\* analysis and set the status to error: the row still holds the analysis
\* of the first
FailedRunKeptAnalysis ==
  \E r, q \in RunIds :
     /\ Completed(r) /\ Returned(q)
     /\ r \in runs[q].after
     /\ runs[q].documentId = runs[r].documentId
     /\ runs[q].env.update = "fail" /\ runs[q].env.secondary = "ok"
     /\ DocOf(r).processing_status = "error"
     /\ AnalysisColumnsOf(DocOf(r)) # [c \in AnalysisColumns |-> Unset]
     /\ \A c \in AnalysisColumns :
          DocOf(r)[c] = AnalysisUpdate(runs[r].text, runs[r].analysisResult)[c]

\* the reply of the endpoint to the run (the run has called it)
ReplyTo(r) == WideReplies[runs[r].env.reply]

\* the text of the reply is no JSON document, or one that is not an object
\* or an array
TextUnparseable(reply) ==
  \/ ~reply.hasText
  \/ JsonParse(JsonText(reply.text)).threw
  \/ JsonParse(JsonText(reply.text)).value.t \in {"null", "number", "string", "boolean"}

\* the reply is ok and is not of the expected structure: it has no
\* candidate, or its text is not an analysis
Unparseable(reply) == reply.ok /\ (~reply.hasCandidate \/ TextUnparseable(reply))

\* the run has answered with the fallback analysis for its document and
\* has stored it with the status completed
CompletedWithFallback(r) ==
  /\ runs[r].response = "success"
  /\ runs[r].statusAfter = "completed"
  /\ runs[r].analysisResult = FallbackAnalysis(runs[r].document)
  /\ \A c \in AnalysisColumns :
       DocOf(r)[c] = AnalysisUpdate(runs[r].text, FallbackAnalysis(runs[r].document))[c]

\* C23: a run that has returned and to which the endpoint answered with a
\* response that is ok but is not of the expected structure has not
\* failed: it has stored the fallback analysis and left its document
\* completed.
UnparseableReplyStillCompletes ==
  \A r \in RunIds :
     Returned(r) /\ runs[r].llmCalls = 1 /\ Unparseable(ReplyTo(r))
       => CompletedWithFallback(r)

\* the same for the replies that have a candidate
UnparseableTextStillCompletes ==
  \A r \in RunIds :
     Returned(r) /\ runs[r].llmCalls = 1
       /\ ReplyTo(r).ok /\ ReplyTo(r).hasCandidate /\ TextUnparseable(ReplyTo(r))
       => CompletedWithFallback(r)

\* a run to which the endpoint answered with a text that is no analysis
\* has stored the fallback analysis
FallbackStored ==
  \E r \in RunIds :
     /\ Returned(r) /\ runs[r].llmCalls = 1
     /\ ReplyTo(r).hasCandidate /\ TextUnparseable(ReplyTo(r))
     /\ CompletedWithFallback(r)


\* the item of the file a call was started for is in the list
OwnItemListed(u) == \E i \in 1..Len(uploadedFiles) : uploadedFiles[i].file = uploads[u].file

\* the call u is in flight and its next update goes to the item of its file
AimsAtOwnItem(u) ==
  /\ uploads[u].index \in 1..Len(uploadedFiles)
  /\ uploadedFiles[uploads[u].index].file = uploads[u].file

\* C28 as stated: every update of an uploadFile or processWithAI call
\* is applied to the item of the file the call was started for: no update
\* has changed the item of another file, and while the item of its file is
\* in the list, the next update of a call in flight goes to that item.
UpdatesReachOwnItem ==
  \A u \in UploadIds :
    /\ uploads[u].hit \subseteq {uploads[u].file}
    /\ uploads[u].pc \in {"uploading", "inserting", "processing"} /\ OwnItemListed(u)
         => AimsAtOwnItem(u)
=============================================================================
